---- MODULE Spec2Model ----
(***************************************************************************)
(* A model of the gl-thin crate of android-openxr-exp: the handle wrappers *)
(* and bound-state tokens of gl_helper.rs / gl_fancy.rs, and the stereo    *)
(* frame loop of openxr_helpers.rs.                                        *)
(*                                                                         *)
(* The native context is modelled by the binding registers the wrapper's   *)
(* calls address: one register per binding target, set by the native bind  *)
(* call for that target.  A native call that raises an error is ignored by *)
(* the context (the register keeps its value) and the wrapper's            *)
(* explode_if_gl_error()? returns Err at that point.                       *)
(***************************************************************************)
EXTENDS Integers, Sequences, FiniteSets, TLC

(***************************************************************************)
(* Bounds of the model.                                                    *)
(***************************************************************************)
NumBundles == 1
MaxTokens == 2
MaxAttrs == 1
MaxWrappers == 2
MaxEyes == 3
MaxShare == 3
MaxFailedLookups == 1
MaxQueue == 2
MaxPolls == 3
MaxEvents == 3
MaxViews == 2

VARIABLES
    bindings,    \* native binding registers: target -> handle (0 = null)
    tokens,      \* the set of live bound-state tokens
    gpuBorrow,   \* how the GPUState is borrowed by the live tokens
    live,        \* which wrappers exist: bundles, loose buffers, textures
    lastOp,      \* the wrapper operation that ran last, and its result
    log,         \* native calls and token events of the last operation
    wrappers,    \* handle wrappers by slot: kind, ownership, life, deletes issued
    xr,          \* the OpenXRComponent and its last paint_vr_multiview call
    pix,         \* a BoundTexture::write_pixels call: arguments and outcome
    share,       \* bundles and buffer sets that share buffers, and native names in use
    prog,        \* Program::compile and the location lookups: objects, calls, outcome
    errq,        \* the native error queue and the last explode_if_gl_error result
    boot,        \* OpenXRComponent::new: events polled, calls made, outcome
    evq,         \* the runtime's event queue and the last poll_till_no_events call
    wire,        \* vertex attribute configuration of the vertex arrays, and the array buffer binding
    ex1,         \* the revision with BoundBuffersMut: registers, the token and its plain views
    atu          \* the active texture unit: as GPUState records it and as the native context has it

glVars == <<bindings, tokens, gpuBorrow, live, lastOp, log>>

notGL ==
    <<wrappers, xr, pix, share, prog, errq, boot, evq, wire, ex1, atu>>

notRes ==
    <<bindings, tokens, gpuBorrow, live, lastOp, log, xr, pix, share, prog, errq, boot, evq,
      wire, ex1, atu>>

notXR ==
    <<bindings, tokens, gpuBorrow, live, lastOp, log, wrappers, pix, share, prog, errq, boot,
      evq, wire, ex1, atu>>

notPix ==
    <<bindings, tokens, gpuBorrow, live, lastOp, log, wrappers, xr, share, prog, errq, boot,
      evq, wire, ex1, atu>>

notShare ==
    <<bindings, tokens, gpuBorrow, live, lastOp, log, wrappers, xr, pix, prog, errq, boot,
      evq, wire, ex1, atu>>

notProg ==
    <<bindings, tokens, gpuBorrow, live, lastOp, log, wrappers, xr, pix, share, errq, boot,
      evq, wire, ex1, atu>>

notErrq ==
    <<bindings, tokens, gpuBorrow, live, lastOp, log, wrappers, xr, pix, share, prog, boot,
      evq, wire, ex1, atu>>

notBoot ==
    <<bindings, tokens, gpuBorrow, live, lastOp, log, wrappers, xr, pix, share, prog, errq,
      evq, wire, ex1, atu>>

notEvq ==
    <<bindings, tokens, gpuBorrow, live, lastOp, log, wrappers, xr, pix, share, prog, errq,
      boot, wire, ex1, atu>>

notWire ==
    <<bindings, tokens, gpuBorrow, live, lastOp, log, wrappers, xr, pix, share, prog, errq,
      boot, evq, ex1, atu>>

notEx1 ==
    <<bindings, tokens, gpuBorrow, live, lastOp, log, wrappers, xr, pix, share, prog, errq,
      boot, evq, wire, atu>>

notAtu ==
    <<bindings, tokens, gpuBorrow, live, lastOp, log, wrappers, xr, pix, share, prog, errq,
      boot, evq, wire, ex1>>

vars ==
    <<bindings, tokens, gpuBorrow, live, lastOp, log, wrappers, xr, pix, share, prog, errq,
      boot, evq, wire, ex1, atu>>

(***************************************************************************)
(* Handles.  Bundle b owns vertex array b, vertex buffer 2b-1 and index    *)
(* buffer 2b.  The caller also holds one Buffer<ArrayBufferType, T> of its  *)
(* own (the loose buffer) and one Texture.                                 *)
(***************************************************************************)
Bundles == 1..NumBundles
VaoOf(b) == b
VbOf(b) == 2 * b - 1
IbOf(b) == 2 * b
LooseBuffers == {2 * NumBundles + 1}
Textures == {1}

\* gl_helper.rs BufferTarget::TARGET of the buffer's type parameter B
TargetOf(h) ==
    IF h <= 2 * NumBundles /\ h % 2 = 0 THEN "ELEMENT_ARRAY_BUFFER" ELSE "ARRAY_BUFFER"

NullBindings ==
    [VERTEX_ARRAY |-> 0, ARRAY_BUFFER |-> 0, ELEMENT_ARRAY_BUFFER |-> 0, TEXTURE_2D |-> 0]

(***************************************************************************)
(* Native calls are triples <<name, target, handle>>.                      *)
(***************************************************************************)
IsBindCall(c) == c[1] \in {"BindBuffer", "BindVertexArray", "BindTexture"}

ApplyCall(bd, c) == IF IsBindCall(c) THEN [bd EXCEPT ![c[2]] = c[3]] ELSE bd

RECURSIVE ApplyCalls(_, _)
ApplyCalls(bd, cs) ==
    IF cs = <<>> THEN bd ELSE ApplyCalls(ApplyCall(bd, Head(cs)), Tail(cs))

\* A run of calls each followed by explode_if_gl_error()?: call number f raises
\* (0: none does).  The failing call is issued, and ignored by the context.
RunChecked(bd, cs, f) ==
    [bd  |-> ApplyCalls(bd, IF f = 0 THEN cs ELSE SubSeq(cs, 1, f - 1)),
     log |-> IF f = 0 THEN cs ELSE SubSeq(cs, 1, f),
     ok  |-> f = 0]

(***************************************************************************)
(* The wrappers' native call sequences.                                    *)
(***************************************************************************)
VertexArrayBindCalls(v) == << <<"BindVertexArray", "VERTEX_ARRAY", v>> >>

BufferBindCalls(h) == << <<"BindBuffer", TargetOf(h), h>> >>

TextureBindCalls(t) == << <<"BindTexture", "TEXTURE_2D", t>> >>

BindVertexArrayAndBuffersCalls(v, vb, ib) ==
    VertexArrayBindCalls(v) \o BufferBindCalls(vb) \o BufferBindCalls(ib)

\* mutant: the drop forgets to unbind the array buffer
BoundBuffersDropCalls_NoArrayUnbind ==
    << <<"BindBuffer", "ELEMENT_ARRAY_BUFFER", 0>>,
       <<"BindVertexArray", "VERTEX_ARRAY", 0>> >>

BoundBuffersDropCalls ==
    << <<"BindBuffer", "ELEMENT_ARRAY_BUFFER", 0>>,
       <<"BindBuffer", "ARRAY_BUFFER", 0>>,
       <<"BindVertexArray", "VERTEX_ARRAY", 0>> >>

BoundVertexArrayDropCalls == << <<"BindVertexArray", "VERTEX_ARRAY", 0>> >>

\* OneBoundBuffer and BoundTexture have no Drop implementation
OneBoundBufferDropCalls == <<>>

BoundTextureDropCalls == <<>>

(***************************************************************************)
(* Tokens.                                                                 *)
(***************************************************************************)
Token(k, v, a, e, t) ==
    [kind |-> k, VERTEX_ARRAY |-> v, ARRAY_BUFFER |-> a,
     ELEMENT_ARRAY_BUFFER |-> e, TEXTURE_2D |-> t]

NoToken == Token("none", 0, 0, 0, 0)

BoundBuffersNew(v, vb, ib) == Token("BoundBuffers", v, vb, ib, 0)

OneBoundBufferToken(h) ==
    IF TargetOf(h) = "ARRAY_BUFFER"
    THEN Token("OneBoundBuffer", 0, h, 0, 0)
    ELSE Token("OneBoundBuffer", 0, 0, h, 0)

BoundTextureToken(t) == Token("BoundTexture", 0, 0, 0, t)

BoundVertexArrayToken(v) == Token("BoundVertexArray", v, 0, 0, 0)

DropCalls(t) ==
    CASE t.kind = "BoundBuffers" -> BoundBuffersDropCalls
      [] t.kind = "BoundVertexArray" -> BoundVertexArrayDropCalls
      [] t.kind = "OneBoundBuffer" -> OneBoundBufferDropCalls
      [] OTHER -> BoundTextureDropCalls

\* a loose buffer is mutably borrowed while a OneBoundBuffer holds it
BufferBorrowed(h) == OneBoundBufferToken(h) \in tokens

\* a shared &GPUState can be had: from the owner, or from the public gpu_state
\* field of BoundBuffers / BoundVertexArray
SharedRefAvailable == gpuBorrow \in {"free", "shared", "excl_pub"}

Op(name, ok, tok) == [op |-> name, ok |-> ok, tok |-> tok]

(***************************************************************************)
(* VertexBufferBundle::new: the checked native calls in program order, the *)
(* token events between them, and the drops an early return runs.          *)
(***************************************************************************)
RigOneAttributeCalls(loc) ==
    << <<"VertexAttribPointer", "VERTEX_ARRAY", loc>>,
       <<"EnableVertexAttribArray", "VERTEX_ARRAY", loc>> >>

RECURSIVE RigMultiAttributesCalls(_)
RigMultiAttributesCalls(n) ==
    IF n = 0 THEN <<>> ELSE RigMultiAttributesCalls(n - 1) \o RigOneAttributeCalls(n)

NewSteps(b, n) ==
    << <<"GenBuffers", "ARRAY_BUFFER", VbOf(b)>>,
       <<"BindBuffer", "ARRAY_BUFFER", VbOf(b)>>,
       <<"BufferData", "ARRAY_BUFFER", VbOf(b)>>,
       <<"GenBuffers", "ELEMENT_ARRAY_BUFFER", IbOf(b)>>,
       <<"BindBuffer", "ELEMENT_ARRAY_BUFFER", IbOf(b)>>,
       <<"BufferData", "ELEMENT_ARRAY_BUFFER", IbOf(b)>>,
       <<"GenVertexArrays", "VERTEX_ARRAY", VaoOf(b)>>,
       <<"BindVertexArray", "VERTEX_ARRAY", VaoOf(b)>> >>
    \o RigMultiAttributesCalls(n)

\* token events that follow step i of VertexBufferBundle::new; f is the failing
\* step (0: none), last the last step issued
NewTokenEvents(b, i, f, last) ==
    LET okStep == i # f
        acq(k, h) == << <<"acquire", k, h>> >>
        rel(k, h) == << <<"release", k, h>> >>
    IN  CASE i = 2 /\ okStep -> acq("OneBoundBuffer", VbOf(b))
          [] i = 3 -> rel("OneBoundBuffer", VbOf(b)) \o OneBoundBufferDropCalls
          [] i = 5 /\ okStep -> acq("OneBoundBuffer", IbOf(b))
          [] i = 6 -> rel("OneBoundBuffer", IbOf(b)) \o OneBoundBufferDropCalls
          [] i = 8 /\ okStep /\ i # last -> acq("BoundVertexArray", VaoOf(b))
          [] i = 8 /\ okStep /\ i = last ->
                acq("BoundVertexArray", VaoOf(b))
                \o rel("BoundVertexArray", VaoOf(b)) \o BoundVertexArrayDropCalls
          [] i > 8 /\ i = last ->
                rel("BoundVertexArray", VaoOf(b)) \o BoundVertexArrayDropCalls
          [] OTHER -> <<>>

\* the wrappers an early return at step f drops, last declared first
NewCleanup(b, f) ==
    (IF f > 7 THEN << <<"DeleteVertexArrays", "VERTEX_ARRAY", VaoOf(b)>> >> ELSE <<>>)
    \o (IF f > 4 THEN << <<"DeleteBuffers", "ELEMENT_ARRAY_BUFFER", IbOf(b)>> >> ELSE <<>>)
    \o (IF f > 1 THEN << <<"DeleteBuffers", "ARRAY_BUFFER", VbOf(b)>> >> ELSE <<>>)

RECURSIVE NewEvents(_, _, _, _, _)
NewEvents(b, steps, i, f, last) ==
    IF i > last THEN <<>>
    ELSE <<steps[i]>> \o NewTokenEvents(b, i, f, last)
         \o NewEvents(b, steps, i + 1, f, last)

VertexBufferBundleNewRun(bd, b, n, f) ==
    LET steps == NewSteps(b, n)
        last == IF f = 0 THEN Len(steps) ELSE f
        done == IF f = 0 THEN Len(steps) ELSE f - 1
        events == NewEvents(b, steps, 1, f, last)
    IN  [bd  |-> ApplyCalls(ApplyCalls(bd, SubSeq(steps, 1, done)),
                            IF done >= 8 THEN BoundVertexArrayDropCalls ELSE <<>>),
         log |-> events \o (IF f = 0 THEN <<>> ELSE NewCleanup(b, f)),
         ok  |-> f = 0]

(***************************************************************************)
(* Initial state: a fresh context, GPUState::new(), nothing allocated.     *)
(***************************************************************************)
GLInit ==
    /\ bindings = NullBindings
    /\ tokens = {}
    /\ gpuBorrow = "free"
    /\ live = [bundles |-> {}, buffers |-> {}, textures |-> {}]
    /\ lastOp = Op("init", TRUE, NoToken)
    /\ log = <<>>

LiveBuffers ==
    live.buffers \cup {VbOf(b) : b \in live.bundles} \cup {IbOf(b) : b \in live.bundles}

\* the GPUState borrow once token t is gone
BorrowAfterDrop(t) == IF tokens = {t} THEN "free" ELSE gpuBorrow

(***************************************************************************)
(* Operations.                                                             *)
(***************************************************************************)
\* Buffer::new
BufferNew(h, f) ==
    /\ h \in LooseBuffers \ live.buffers
    /\ LET r == RunChecked(bindings, << <<"GenBuffers", TargetOf(h), h>> >>, f)
       IN  /\ live' = IF r.ok THEN [live EXCEPT !.buffers = @ \cup {h}] ELSE live
           /\ lastOp' = Op("Buffer::new", r.ok, NoToken)
           /\ log' = r.log
    /\ UNCHANGED <<bindings, tokens, gpuBorrow>>
    /\ UNCHANGED notGL

\* Texture::new
TextureNew(t, f) ==
    /\ t \in Textures \ live.textures
    /\ LET r == RunChecked(bindings, << <<"GenTextures", "TEXTURE_2D", t>> >>, f)
       IN  /\ live' = IF r.ok THEN [live EXCEPT !.textures = @ \cup {t}] ELSE live
           /\ lastOp' = Op("Texture::new", r.ok, NoToken)
           /\ log' = r.log
    /\ UNCHANGED <<bindings, tokens, gpuBorrow>>
    /\ UNCHANGED notGL

\* VertexBufferBundle::new (takes &mut GPUState)
VertexBufferBundleNew(b, n, f) ==
    /\ b \in Bundles \ live.bundles
    /\ gpuBorrow = "free"
    /\ LET r == VertexBufferBundleNewRun(bindings, b, n, f)
       IN  /\ bindings' = r.bd
           /\ live' = IF r.ok THEN [live EXCEPT !.bundles = @ \cup {b}] ELSE live
           /\ lastOp' = Op("VertexBufferBundle::new", r.ok, NoToken)
           /\ log' = r.log
    /\ UNCHANGED <<tokens, gpuBorrow>>
    /\ UNCHANGED notGL

\* VertexBufferBundle::bind -> GPUState::bind_vertex_array_and_buffers
Bind(b, f) ==
    /\ b \in live.bundles
    /\ gpuBorrow = "free"
    /\ LET r == RunChecked(bindings,
                           BindVertexArrayAndBuffersCalls(VaoOf(b), VbOf(b), IbOf(b)), f)
           t == BoundBuffersNew(VaoOf(b), VbOf(b), IbOf(b))
       IN  /\ bindings' = r.bd
           /\ tokens' = IF r.ok THEN {t} ELSE tokens
           /\ gpuBorrow' = IF r.ok THEN "excl_pub" ELSE gpuBorrow
           /\ lastOp' = Op("VertexBufferBundle::bind", r.ok, IF r.ok THEN t ELSE NoToken)
           /\ log' = r.log
    /\ UNCHANGED live
    /\ UNCHANGED notGL

\* IT::TYPE_CODE of the index buffers of the model (GLushort)
IndexTypeCode == "UNSIGNED_SHORT"

\* the number of indices uploaded into bundle b's index buffer
IndexCountOf(b) == 3 * b

\* mutant: the draw call is issued without the index count
DrawElementsCalls_NoCount(n) == << <<"DrawElements", IndexTypeCode, 0>> >>

\* gl::DrawElements(mode, n_indices, IT::TYPE_CODE, offset)
DrawElementsCalls(n) == << <<"DrawElements", IndexTypeCode, n>> >>

\* BoundBuffers::draw_elements
DrawElements(t, n, f) ==
    /\ t \in tokens
    /\ t.kind = "BoundBuffers"
    /\ LET r == RunChecked(bindings, DrawElementsCalls(n), f)
       IN  /\ lastOp' = Op("BoundBuffers::draw_elements", r.ok, t)
           /\ log' = r.log
    /\ UNCHANGED <<bindings, tokens, gpuBorrow, live>>
    /\ UNCHANGED notGL

\* BoundBuffers::rig_one_attribute (does not enable the attribute)
BoundBuffersRigOneAttribute(t, loc, f) ==
    /\ t \in tokens
    /\ t.kind = "BoundBuffers"
    /\ LET r == RunChecked(bindings, << <<"VertexAttribPointer", "VERTEX_ARRAY", loc>> >>, f)
       IN  /\ lastOp' = Op("BoundBuffers::rig_one_attribute", r.ok, t)
           /\ log' = r.log
    /\ UNCHANGED <<bindings, tokens, gpuBorrow, live>>
    /\ UNCHANGED notGL

\* a token goes out of scope: its Drop implementation, if it has one, runs
DropToken(t) ==
    /\ t \in tokens
    /\ bindings' = ApplyCalls(bindings, DropCalls(t))
    /\ tokens' = tokens \ {t}
    /\ gpuBorrow' = BorrowAfterDrop(t)
    /\ lastOp' = Op("drop", TRUE, t)
    /\ log' = DropCalls(t)
    /\ UNCHANGED live
    /\ UNCHANGED notGL

\* Buffer::bind (&self: needs no GPUState)
BufferBind(h, f) ==
    /\ h \in LiveBuffers
    /\ ~BufferBorrowed(h)
    /\ LET r == RunChecked(bindings, BufferBindCalls(h), f)
       IN  /\ bindings' = r.bd
           /\ lastOp' = Op("Buffer::bind", r.ok, NoToken)
           /\ log' = r.log
    /\ UNCHANGED <<tokens, gpuBorrow, live>>
    /\ UNCHANGED notGL

\* VertexArray::bind (&self: needs no GPUState)
VertexArrayBind(b, f) ==
    /\ b \in live.bundles
    /\ LET r == RunChecked(bindings, VertexArrayBindCalls(VaoOf(b)), f)
       IN  /\ bindings' = r.bd
           /\ lastOp' = Op("VertexArray::bind", r.ok, NoToken)
           /\ log' = r.log
    /\ UNCHANGED <<tokens, gpuBorrow, live>>
    /\ UNCHANGED notGL

\* VertexBufferBundle::bind_primitive (&self: needs no GPUState)
BindPrimitive(b, f) ==
    /\ b \in live.bundles
    /\ LET r == RunChecked(bindings,
                           BindVertexArrayAndBuffersCalls(VaoOf(b), VbOf(b), IbOf(b)), f)
       IN  /\ bindings' = r.bd
           /\ lastOp' = Op("VertexBufferBundle::bind_primitive", r.ok, NoToken)
           /\ log' = r.log
    /\ UNCHANGED <<tokens, gpuBorrow, live>>
    /\ UNCHANGED notGL

\* Texture::bind (&self: needs no GPUState)
TextureBind(t, f) ==
    /\ t \in live.textures
    /\ LET r == RunChecked(bindings, TextureBindCalls(t), f)
       IN  /\ bindings' = r.bd
           /\ lastOp' = Op("Texture::bind", r.ok, NoToken)
           /\ log' = r.log
    /\ UNCHANGED <<tokens, gpuBorrow, live>>
    /\ UNCHANGED notGL

\* OneBoundBuffer::new(&GPUState, &mut Buffer)
OneBoundBufferNew(h, f) ==
    /\ h \in live.buffers
    /\ ~BufferBorrowed(h)
    /\ SharedRefAvailable
    /\ Cardinality(tokens) < MaxTokens
    /\ LET r == RunChecked(bindings, BufferBindCalls(h), f)
           t == OneBoundBufferToken(h)
       IN  /\ bindings' = r.bd
           /\ tokens' = IF r.ok THEN tokens \cup {t} ELSE tokens
           /\ gpuBorrow' = IF r.ok /\ gpuBorrow = "free" THEN "shared" ELSE gpuBorrow
           /\ lastOp' = Op("OneBoundBuffer::new", r.ok, IF r.ok THEN t ELSE NoToken)
           /\ log' = r.log
    /\ UNCHANGED live
    /\ UNCHANGED notGL

\* Buffer::bound(&mut GPUState)
BufferBound(h, f) ==
    /\ h \in live.buffers
    /\ gpuBorrow = "free"
    /\ LET r == RunChecked(bindings, BufferBindCalls(h), f)
           t == OneBoundBufferToken(h)
       IN  /\ bindings' = r.bd
           /\ tokens' = IF r.ok THEN {t} ELSE tokens
           /\ gpuBorrow' = IF r.ok THEN "excl_priv" ELSE gpuBorrow
           /\ lastOp' = Op("Buffer::bound", r.ok, IF r.ok THEN t ELSE NoToken)
           /\ log' = r.log
    /\ UNCHANGED live
    /\ UNCHANGED notGL

\* BoundTexture::new(&GPUState, &Texture, target)
BoundTextureNew(t, f) ==
    /\ t \in live.textures
    /\ SharedRefAvailable
    /\ BoundTextureToken(t) \notin tokens
    /\ Cardinality(tokens) < MaxTokens
    /\ LET r == RunChecked(bindings, TextureBindCalls(t), f)
           k == BoundTextureToken(t)
       IN  /\ bindings' = r.bd
           /\ tokens' = IF r.ok THEN tokens \cup {k} ELSE tokens
           /\ gpuBorrow' = IF r.ok /\ gpuBorrow = "free" THEN "shared" ELSE gpuBorrow
           /\ lastOp' = Op("BoundTexture::new", r.ok, IF r.ok THEN k ELSE NoToken)
           /\ log' = r.log
    /\ UNCHANGED live
    /\ UNCHANGED notGL

\* Texture::bound(target, &mut GPUState)
TextureBound(t, f) ==
    /\ t \in live.textures
    /\ gpuBorrow = "free"
    /\ LET r == RunChecked(bindings, TextureBindCalls(t), f)
           k == BoundTextureToken(t)
       IN  /\ bindings' = r.bd
           /\ tokens' = IF r.ok THEN {k} ELSE tokens
           /\ gpuBorrow' = IF r.ok THEN "excl_priv" ELSE gpuBorrow
           /\ lastOp' = Op("Texture::bound", r.ok, IF r.ok THEN k ELSE NoToken)
           /\ log' = r.log
    /\ UNCHANGED live
    /\ UNCHANGED notGL

\* VertexArray::bound(&mut GPUState) -> BoundVertexArray::new
VertexArrayBound(b, f) ==
    /\ b \in live.bundles
    /\ gpuBorrow = "free"
    /\ LET r == RunChecked(bindings, VertexArrayBindCalls(VaoOf(b)), f)
           k == BoundVertexArrayToken(VaoOf(b))
       IN  /\ bindings' = r.bd
           /\ tokens' = IF r.ok THEN {k} ELSE tokens
           /\ gpuBorrow' = IF r.ok THEN "excl_pub" ELSE gpuBorrow
           /\ lastOp' = Op("VertexArray::bound", r.ok, IF r.ok THEN k ELSE NoToken)
           /\ log' = r.log
    /\ UNCHANGED live
    /\ UNCHANGED notGL

GLNext ==
    \/ \E h \in LooseBuffers, f \in 0..1 : BufferNew(h, f)
    \/ \E t \in Textures, f \in 0..1 : TextureNew(t, f)
    \/ \E b \in Bundles, n \in 0..MaxAttrs, f \in 0..(8 + 2 * MaxAttrs) :
          f <= 8 + 2 * n /\ VertexBufferBundleNew(b, n, f)
    \/ \E b \in Bundles, f \in 0..3 : Bind(b, f)
    \/ \E t \in tokens, f \in 0..1 : DrawElements(t, IndexCountOf(t.VERTEX_ARRAY), f)
    \/ \E t \in tokens, loc \in 1..MaxAttrs, f \in 0..1 :
          BoundBuffersRigOneAttribute(t, loc, f)
    \/ \E t \in tokens : DropToken(t)
    \/ \E h \in LiveBuffers, f \in 0..1 : BufferBind(h, f)
    \/ \E b \in Bundles, f \in 0..1 : VertexArrayBind(b, f)
    \/ \E b \in Bundles, f \in 0..3 : BindPrimitive(b, f)
    \/ \E t \in Textures, f \in 0..1 : TextureBind(t, f)
    \/ \E h \in LooseBuffers, f \in 0..1 : OneBoundBufferNew(h, f)
    \/ \E h \in LooseBuffers, f \in 0..1 : BufferBound(h, f)
    \/ \E t \in Textures, f \in 0..1 : BoundTextureNew(t, f)
    \/ \E t \in Textures, f \in 0..1 : TextureBound(t, f)
    \/ \E b \in Bundles, f \in 0..1 : VertexArrayBound(b, f)

(***************************************************************************)
(* Handle wrappers (gl_helper.rs): Buffer, VertexArray, Texture, Shader,   *)
(* Program, FrameBuffer.  A slot holds one wrapper from its construction   *)
(* to its destruction; deletes counts the native delete calls the wrapper  *)
(* issued for its handle.                                                  *)
(***************************************************************************)
Slots == 1..MaxWrappers

Kinds == {"Buffer", "VertexArray", "Texture", "Shader", "Program", "FrameBuffer"}

Wrapper(k, own, origin, life, deletes, exit) ==
    [kind |-> k, own |-> own, origin |-> origin, life |-> life,
     deletes |-> deletes, exit |-> exit]

Unborn == Wrapper("none", "None", "none", "unborn", 0, "none")

WrappersInit == [s \in Slots |-> Unborn]

\* impl Drop for Buffer: DeleteBuffers, unconditionally
BufferDrop(own) == 1

\* impl Drop for VertexArray: DeleteVertexArrays, unconditionally
VertexArrayDrop(own) == 1

\* impl Drop for Program: DeleteProgram, unconditionally
ProgramDrop(own) == 1

\* impl Drop for FrameBuffer: DeleteFramebuffers, unconditionally
FrameBufferDrop(own) == 1

\* impl Drop for Shader: DeleteShader if the Option still holds the handle
ShaderDrop(own) == IF own = "Owned" THEN 1 ELSE 0

\* mutant: the texture's drop deletes whatever handle it holds
TextureDrop_DeletesBorrowed(own) == IF own \in {"Owned", "Borrowed"} THEN 1 ELSE 0

\* impl Drop for Texture: DeleteTextures for Ownership::Owned only
TextureDrop(own) == IF own = "Owned" THEN 1 ELSE 0

DropDeletes(w) ==
    CASE w.kind = "Buffer" -> BufferDrop(w.own)
      [] w.kind = "VertexArray" -> VertexArrayDrop(w.own)
      [] w.kind = "Program" -> ProgramDrop(w.own)
      [] w.kind = "FrameBuffer" -> FrameBufferDrop(w.own)
      [] w.kind = "Shader" -> ShaderDrop(w.own)
      [] OTHER -> TextureDrop(w.own)

Dropped(w, exit) ==
    [w EXCEPT !.life = "dropped", !.deletes = @ + DropDeletes(w), !.exit = exit]

\* Buffer::new, VertexArray::incomplete, Texture::new, Shader::new_raw,
\* Program::new_empty, FrameBuffer::new: the native allocate call, then
\* explode_if_gl_error()?; no wrapper is built when it reports an error
Allocate(s, k, f) ==
    /\ wrappers[s].life = "unborn"
    /\ wrappers' = IF f = 0
                   THEN [wrappers EXCEPT
                           ![s] = Wrapper(k, "Owned", "allocated", "live", 0, "none")]
                   ELSE wrappers
    /\ UNCHANGED notRes

\* Texture::borrowed
TextureBorrowed(s) ==
    /\ wrappers[s].life = "unborn"
    /\ wrappers' = [wrappers EXCEPT
                      ![s] = Wrapper("Texture", "Borrowed", "borrowed", "live", 0, "none")]
    /\ UNCHANGED notRes

\* Program::take_ownership
ProgramTakeOwnership(s) ==
    /\ wrappers[s].life = "unborn"
    /\ wrappers' = [wrappers EXCEPT
                      ![s] = Wrapper("Program", "Owned", "adopted", "live", 0, "none")]
    /\ UNCHANGED notRes

\* an operation on the wrapper returns Err, the ? leaves the scope that owns
\* the wrapper, and the wrapper is dropped
UseFailsAndScopeExits(s) ==
    /\ wrappers[s].life = "live"
    /\ wrappers' = [wrappers EXCEPT ![s] = Dropped(@, "early_exit")]
    /\ UNCHANGED notRes

\* the wrapper's scope ends normally
ScopeEnds(s) ==
    /\ wrappers[s].life = "live"
    /\ wrappers' = [wrappers EXCEPT ![s] = Dropped(@, "scope_end")]
    /\ UNCHANGED notRes

\* Shader::unmanage(mut self): handle.take(), then self is dropped
ShaderUnmanage(s) ==
    /\ wrappers[s].life = "live"
    /\ wrappers[s].kind = "Shader"
    /\ wrappers' = [wrappers EXCEPT ![s] = Dropped([@ EXCEPT !.own = "None"], "unmanage")]
    /\ UNCHANGED notRes

ResNext ==
    \/ \E s \in Slots, k \in Kinds, f \in 0..1 : Allocate(s, k, f)
    \/ \E s \in Slots : TextureBorrowed(s)
    \/ \E s \in Slots : ProgramTakeOwnership(s)
    \/ \E s \in Slots : UseFailsAndScopeExits(s)
    \/ \E s \in Slots : ScopeEnds(s)
    \/ \E s \in Slots : ShaderUnmanage(s)

(***************************************************************************)
(* OpenXRComponent::paint_vr_multiview (openxr_helpers.rs).  An event is   *)
(* <<call, eye, succeeded>>; eye is 0 for the frame-level calls.  The      *)
(* component has one swapchain, one image list and one view per            *)
(* view-configuration entry, so the izip! of the loop runs over nEyes.     *)
(***************************************************************************)
Eyes(n) == 1..n

FrameFailures == {"none", "wait", "begin", "locate_views", "end"}

EyeOutcomes == {"ok", "acquire_image", "wait_image", "release_image"}

Ev(call, eye, ok) == <<call, eye, ok>>

\* XrErrorWrapped::build: message_for_error when an instance is passed, the
\* formatted result code otherwise
XrErrorWrappedBuild(instance) ==
    IF instance = "Some" THEN "decoded_string" ELSE "raw_code"

\* the instance argument of every annotate_if_err and build in paint_vr_multiview
PaintInstanceArg == "None"

XROk == [status |-> "ok", call |-> "", eye |-> 0, xr_err |-> ""]

XRErr(e) ==
    [status |-> "err", call |-> e[1], eye |-> e[2],
     xr_err |-> XrErrorWrappedBuild(PaintInstanceArg)]

XRInit(n) ==
    [nEyes |-> n, log |-> <<>>, logged |-> <<>>,
     result |-> [status |-> "none", call |-> "", eye |-> 0],
     frameOpen |-> FALSE, openAtEntry |-> FALSE]

\* mutant: the view is painted before its image has been waited for
EyeBody_PaintBeforeWait(i, o) ==
    CASE o = "acquire_image" -> << Ev("acquire_image", i, FALSE) >>
      [] o = "wait_image" ->
            << Ev("acquire_image", i, TRUE), Ev("paint_one_view", i, TRUE),
               Ev("wait_image", i, FALSE) >>
      [] OTHER ->
            << Ev("acquire_image", i, TRUE), Ev("paint_one_view", i, TRUE),
               Ev("wait_image", i, TRUE), Ev("release_image", i, o # "release_image") >>

\* the body of the per-eye loop for eye i, whose first failing call is o
EyeBody(i, o) ==
    CASE o = "acquire_image" -> << Ev("acquire_image", i, FALSE) >>
      [] o = "wait_image" ->
            << Ev("acquire_image", i, TRUE), Ev("wait_image", i, FALSE) >>
      [] OTHER ->
            << Ev("acquire_image", i, TRUE), Ev("wait_image", i, TRUE),
               Ev("paint_one_view", i, TRUE),
               Ev("release_image", i, o # "release_image") >>

\* mutant: a failing eye ends the loop
AfterEye_Break(i, n, o) == IF o = "ok" THEN i + 1 ELSE n + 1

\* the eye the loop turns to after eye i: `continue` after a failure and the
\* end of the body after a success both go on to the next eye
AfterEye(i, n, o) == i + 1

RECURSIVE EyeLoop(_, _, _)
EyeLoop(i, n, eo) ==
    IF i > n THEN <<>>
    ELSE EyeBody(i, eo[i]) \o EyeLoop(AfterEye(i, n, eo[i]), n, eo)

Failed(e) == ~e[3]

\* malfunctions: one entry pushed per failing per-eye call, in loop order
Malfunctions(evs) == SelectSeq(evs, Failed)

\* mutant: the last collected failure is returned
FirstMalfunction_Last(m) == m[Len(m)]

\* malfunctions.into_iter().next()
FirstMalfunction(m) == Head(m)

PaintRun(n, ff, eo) ==
    LET w == Ev("wait", 0, ff # "wait")
        b == Ev("begin", 0, ff # "begin")
        l == Ev("locate_views", 0, ff # "locate_views")
        eyes == EyeLoop(1, n, eo)
        m == Malfunctions(eyes)
        painted == <<w, b, l, Ev("before_paint", 0, TRUE)>> \o eyes
                   \o << Ev("after_paint", 0, TRUE) >>
        e == Ev("end", 0, ff # "end")
    IN  CASE ff = "wait" -> [log |-> <<w>>, logged |-> <<>>, result |-> XRErr(w)]
          [] ff = "begin" -> [log |-> <<w, b>>, logged |-> <<>>, result |-> XRErr(b)]
          [] ff = "locate_views" ->
                [log |-> <<w, b, l>>, logged |-> <<>>, result |-> XRErr(l)]
          [] ff \in {"none", "end"} /\ m # <<>> ->
                [log |-> painted, logged |-> m, result |-> XRErr(FirstMalfunction(m))]
          [] OTHER ->
                [log |-> painted \o << Ev("projection_layer", 0, TRUE), e >>,
                 logged |-> m,
                 result |-> IF ff = "end" THEN XRErr(e) ELSE XROk]

Has(evs, call, ok) == \E i \in 1..Len(evs) : evs[i][1] = call /\ evs[i][3] = ok

\* a frame is open from a successful frame_stream.begin until frame_stream.end
\* is called for it
FrameOpenAfter(open, evs) ==
    IF Has(evs, "begin", TRUE)
    THEN ~(Has(evs, "end", TRUE) \/ Has(evs, "end", FALSE))
    ELSE open

PaintVrMultiview(ff, eo) ==
    /\ LET r == PaintRun(xr.nEyes, ff, eo)
       IN  xr' = [xr EXCEPT !.log = r.log, !.logged = r.logged, !.result = r.result,
                            !.frameOpen = FrameOpenAfter(xr.frameOpen, r.log),
                            !.openAtEntry = xr.frameOpen]
    /\ UNCHANGED notXR

XRNext ==
    \E ff \in FrameFailures, eo \in [Eyes(xr.nEyes) -> EyeOutcomes] : PaintVrMultiview(ff, eo)

(***************************************************************************)
(* BoundTexture::write_pixels and write_pixels_and_generate_mipmap         *)
(* (gl_fancy.rs) with bytes_per_pixel (gl_helper.rs).  width and height    *)
(* are GLsizei (i32), the slice length and bpp are usize (64 bits on the   *)
(* aarch64 headset target).  Integer overflow panics in a build with       *)
(* overflow checks and wraps in one without; the build is an input.        *)
(***************************************************************************)
PixSizes == {-2, 0, 2, 4, 46341, 65536, 65537}

PixFormats == {"RGB", "RED", "RGBA", "DEPTH_COMPONENT"}

PixLens == {0, 4, 12, 16, 40, 48, 64, 131073}

\* size_of::<T>() for u8, GLushort, GLuint and GLfloat
ElemSizes == {1, 2, 4}

Abs(x) == IF x < 0 THEN -x ELSE x

Lo16(x) == x % 65536

Hi16(x) == (x \div 65536) % 65536

\* x * y modulo 2^16 and divided by 2^16, for x and y in 0..65535, computed
\* through the bytes of y so that no intermediate value leaves 32 bits
MulMod16(x, y) ==
    LET A == x * (y \div 256)
        B == x * (y % 256)
    IN  ((A % 256) * 256 + B) % 65536

MulDiv16(x, y) ==
    LET A == x * (y \div 256)
        B == x * (y % 256)
    IN  (A \div 256) + (((A % 256) * 256 + B) \div 65536)

\* i32 multiplication as a build without overflow checks computes it
WrappingMul32(a, b) ==
    LET r0 == MulMod16(Lo16(a), Lo16(b))
        r1 == (MulDiv16(Lo16(a), Lo16(b)) + MulMod16(Lo16(a), Hi16(b))
               + MulMod16(Hi16(a), Lo16(b))) % 65536
    IN  IF r1 >= 32768 THEN (r1 - 65536) * 65536 + r0 ELSE r1 * 65536 + r0

\* the i32 product is not the mathematical product
MulOverflows32(a, b) ==
    /\ a # 0
    /\ b # 0
    /\ LET p == WrappingMul32(a, b)
       IN  ~(p % Abs(b) = 0 /\ p \div Abs(b) = (IF b > 0 THEN a ELSE -a))

\* bytes_per_pixel::<T>(format)
BytesPerPixel(format, elem) ==
    CASE format = "RGB" -> [ok |-> TRUE, bpp |-> 3 * elem]
      [] format = "RED" -> [ok |-> TRUE, bpp |-> 1 * elem]
      [] format = "RGBA" -> [ok |-> TRUE, bpp |-> 4 * elem]
      [] OTHER -> [ok |-> FALSE, bpp |-> 0]

\* (width * height) as usize * bpp in a build with overflow checks panics:
\* in the i32 product, or in the usize product of a sign-extended negative
UsizeMulPanics(p, bpp) == p < 0 /\ bpp >= 2

\* (width * height) as usize * bpp == pixels.len(); a negative product
\* converts to at least 2^64 - 2^31, and times bpp (wrapping) stays above
\* every slice length
SizeCheckPasses(p, bpp, len) ==
    /\ p >= 0
    /\ len % bpp = 0
    /\ len \div bpp = p

PixInput(w, h, format, len, elem, checks) ==
    [state |-> "input", op |-> "none", width |-> w, height |-> h, format |-> format,
     len |-> len, elem |-> elem, checks |-> checks, texOk |-> TRUE,
     outcome |-> "none", uploaded |-> 0, mipmap |-> 0]

PixIdle == PixInput(0, 0, "RGB", 0, 1, FALSE)

PixInputs ==
    { PixInput(w, h, fmt, len, elem, checks) :
        w \in PixSizes, h \in PixSizes, fmt \in PixFormats, len \in PixLens,
        elem \in ElemSizes, checks \in BOOLEAN }

\* the outcome of write_pixels and the number of TexImage2D calls it issues
WritePixelsRun(in, texOk) ==
    LET b == BytesPerPixel(in.format, in.elem)
        p == WrappingMul32(in.width, in.height)
    IN  IF ~b.ok THEN [outcome |-> "Err_format", uploaded |-> 0]
        ELSE IF in.checks /\ (MulOverflows32(in.width, in.height) \/ UsizeMulPanics(p, b.bpp))
        THEN [outcome |-> "panic", uploaded |-> 0]
        ELSE IF ~SizeCheckPasses(p, b.bpp, in.len)
        THEN [outcome |-> "Err_size", uploaded |-> 0]
        ELSE [outcome |-> IF texOk THEN "Ok" ELSE "Err_gl", uploaded |-> 1]

WritePixels(texOk) ==
    /\ pix.state = "input"
    /\ LET r == WritePixelsRun(pix, texOk)
       IN  pix' = [pix EXCEPT !.state = "done", !.op = "write_pixels", !.texOk = texOk,
                              !.outcome = r.outcome, !.uploaded = r.uploaded]
    /\ UNCHANGED notPix

\* self.write_pixels(...)?; self.generate_mipmap()
WritePixelsAndGenerateMipmap(texOk, mipOk) ==
    /\ pix.state = "input"
    /\ LET r == WritePixelsRun(pix, texOk)
       IN  pix' = [pix EXCEPT !.state = "done",
                              !.op = "write_pixels_and_generate_mipmap",
                              !.texOk = texOk,
                              !.outcome = IF r.outcome # "Ok" THEN r.outcome
                                          ELSE IF mipOk THEN "Ok" ELSE "Err_gl",
                              !.uploaded = r.uploaded,
                              !.mipmap = IF r.outcome = "Ok" THEN 1 ELSE 0]
    /\ UNCHANGED notPix

PixNext ==
    \/ \E texOk \in BOOLEAN : WritePixels(texOk)
    \/ \E texOk \in BOOLEAN, mipOk \in BOOLEAN : WritePixelsAndGenerateMipmap(texOk, mipOk)

(***************************************************************************)
(* Buffer sharing (gl_fancy.rs): VertexBufferLite::new,                    *)
(* VertexBufferBundle::new, from_buffers and reuse.  A slot holds a bundle *)
(* or a lite buffer set.  Buffers are held through Rc, so a buffer name    *)
(* stays in use until its last holder is dropped; a native Gen call        *)
(* returns any name that is not in use.  One source is followed at a time: *)
(* a new source is made when no holder of the previous one is left.        *)
(***************************************************************************)
ShareSlots == 1..MaxShare

VaoNames == 1..MaxShare

BufNames == {1, 2, 3}

IndexCounts == {0, 3}

Entry(kind, vao, vb, ib, n) ==
    [kind |-> kind, vertex_array |-> vao, vertex_buffer |-> vb,
     index_buffer |-> ib, index_count |-> n]

EmptyEntry == Entry("none", 0, 0, 0, 0)

ShareLast(op, ok, gens) == [op |-> op, ok |-> ok, gens |-> gens]

\* what the last drop released: the value dropped and the native deletes
NothingReleased == [entry |-> EmptyEntry, deletes |-> <<>>]

\* strong is the Rc strong count of each Buffer, buffers the buffer names that
\* exist in the native context
ShareInit ==
    [slots |-> [i \in ShareSlots |-> EmptyEntry], last |-> ShareLast("init", TRUE, <<>>),
     strong |-> [h \in BufNames |-> 0], buffers |-> {}, released |-> NothingReleased]

\* Rc::new(vertex_buffer), Rc::new(index_buffer)
RcNew(strong, vb, ib) == [strong EXCEPT ![vb] = 1, ![ib] = 1]

\* vertex_buffer.clone(), index_buffer.clone()
RcClone(strong, vb, ib) == [strong EXCEPT ![vb] = @ + 1, ![ib] = @ + 1]

\* mutant: every drop of a reference drops the Buffer
LastReference_Any(strong, h) == TRUE

\* Rc<Buffer>: the Buffer is dropped with the last strong reference
LastReference(strong, h) == strong[h] = 1

\* the native deletes of dropping entry e: the fields in declaration order,
\* Drop for VertexArray, then Drop for Rc<Buffer> twice
DropDeletesOf(e, strong) ==
    (IF e.kind = "bundle" THEN << <<"DeleteVertexArrays", e.vertex_array>> >> ELSE <<>>)
    \o (IF LastReference(strong, e.vertex_buffer)
        THEN << <<"DeleteBuffers", e.vertex_buffer>> >> ELSE <<>>)
    \o (IF LastReference(strong, e.index_buffer)
        THEN << <<"DeleteBuffers", e.index_buffer>> >> ELSE <<>>)

Holders == {i \in ShareSlots : share.slots[i].kind # "none"}

BundlesHeld == {i \in ShareSlots : share.slots[i].kind = "bundle"}

VaosInUse == {share.slots[i].vertex_array : i \in BundlesHeld}

\* the slot a newly built value is kept in
FreeSlot(i) == share.slots[i].kind = "none" /\ \A j \in 1..(i - 1) : share.slots[j].kind # "none"

\* VertexBufferLite::new: Buffer::new, upload, Buffer::new, upload
LiteNew(i, vb, ib, n, f) ==
    /\ FreeSlot(i)
    /\ Holders = {}
    /\ vb # ib
    /\ {vb, ib} \cap share.buffers = {}
    /\ share' = [share EXCEPT
          !.slots[i] = IF f = 0 THEN Entry("lite", 0, vb, ib, n) ELSE @,
          !.strong = IF f = 0 THEN RcNew(@, vb, ib) ELSE @,
          !.buffers = IF f = 0 THEN @ \cup {vb, ib} ELSE @,
          !.released = NothingReleased,
          !.last = ShareLast("VertexBufferLite::new", f = 0, <<"GenBuffers", "GenBuffers">>)]
    /\ UNCHANGED notShare

\* VertexBufferBundle::new: as above, then VertexArray::incomplete and wiring
SourceNew(i, vao, vb, ib, n, f) ==
    /\ FreeSlot(i)
    /\ Holders = {}
    /\ vb # ib
    /\ {vb, ib} \cap share.buffers = {}
    /\ share' = [share EXCEPT
          !.slots[i] = IF f = 0 THEN Entry("bundle", vao, vb, ib, n) ELSE @,
          !.strong = IF f = 0 THEN RcNew(@, vb, ib) ELSE @,
          !.buffers = IF f = 0 THEN @ \cup {vb, ib} ELSE @,
          !.released = NothingReleased,
          !.last = ShareLast("VertexBufferBundle::new", f = 0,
                             <<"GenBuffers", "GenBuffers", "GenVertexArrays">>)]
    /\ UNCHANGED notShare

\* mutant: the derived bundle takes over the source's vertex array handle
Derived_SameVertexArray(src, vao) ==
    Entry("bundle", src.vertex_array, src.vertex_buffer, src.index_buffer, src.index_count)

\* Ok(Self { vertex_array: vao, vertex_buffer: ...clone(), index_buffer:
\* ...clone(), index_count }) of reuse and of from_buffers
Derived(src, vao) ==
    Entry("bundle", vao, src.vertex_buffer, src.index_buffer, src.index_count)

\* VertexBufferBundle::reuse: VertexArray::incomplete()?, bound()?, wiring?;
\* a failure after the allocation drops the new vertex array
Reuse(i, src, vao, f) ==
    /\ FreeSlot(i)
    /\ share.slots[src].kind = "bundle"
    /\ vao \notin VaosInUse
    /\ share' = [share EXCEPT
          !.slots[i] = IF f = 0 THEN Derived(share.slots[src], vao) ELSE @,
          !.strong = IF f = 0
                     THEN RcClone(@, share.slots[src].vertex_buffer,
                                  share.slots[src].index_buffer)
                     ELSE @,
          !.released = NothingReleased,
          !.last = ShareLast("reuse", f = 0, <<"GenVertexArrays">>)]
    /\ UNCHANGED notShare

\* VertexBufferBundle::from_buffers
FromBuffers(i, src, vao, f) ==
    /\ FreeSlot(i)
    /\ share.slots[src].kind = "lite"
    /\ vao \notin VaosInUse
    /\ share' = [share EXCEPT
          !.slots[i] = IF f = 0 THEN Derived(share.slots[src], vao) ELSE @,
          !.strong = IF f = 0
                     THEN RcClone(@, share.slots[src].vertex_buffer,
                                  share.slots[src].index_buffer)
                     ELSE @,
          !.released = NothingReleased,
          !.last = ShareLast("from_buffers", f = 0, <<"GenVertexArrays">>)]
    /\ UNCHANGED notShare

\* a bundle or buffer set goes out of scope: its vertex array is deleted,
\* its Rc references are released
ShareDrop(i) ==
    /\ share.slots[i].kind # "none"
    /\ LET e == share.slots[i]
           deletes == DropDeletesOf(e, share.strong)
       IN  share' = [share EXCEPT
              !.slots[i] = EmptyEntry,
              !.last = ShareLast("drop", TRUE, <<>>),
              !.strong = [@ EXCEPT ![e.vertex_buffer] = @ - 1, ![e.index_buffer] = @ - 1],
              !.buffers = @ \ {deletes[k][2] : k \in {j \in 1..Len(deletes) :
                                                         deletes[j][1] = "DeleteBuffers"}},
              !.released = [entry |-> e, deletes |-> deletes]]
    /\ UNCHANGED notShare

ShareNext ==
    \/ \E i \in ShareSlots, vb \in BufNames, ib \in BufNames, n \in IndexCounts, f \in 0..1 :
          LiteNew(i, vb, ib, n, f)
    \/ \E i \in ShareSlots, vao \in VaoNames, vb \in BufNames, ib \in BufNames,
          n \in IndexCounts, f \in 0..1 : SourceNew(i, vao, vb, ib, n, f)
    \/ \E i \in ShareSlots, src \in ShareSlots, vao \in VaoNames, f \in 0..1 :
          Reuse(i, src, vao, f)
    \/ \E i \in ShareSlots, src \in ShareSlots, vao \in VaoNames, f \in 0..1 :
          FromBuffers(i, src, vao, f)
    \/ \E i \in ShareSlots : ShareDrop(i)

(***************************************************************************)
(* Program::compile, Program::get_uniform_location and                     *)
(* Program::get_attribute_location (gl_helper.rs).  A panic unwinds or     *)
(* aborts, as the build's panic strategy says; unwinding drops the locals. *)
(* The locations of the active names are the driver's choice at link time. *)
(***************************************************************************)
UniformNames == {"matrix", "tex"}

AttribNames == {"position", "uv"}

\* a &str with a NUL byte inside; no GLSL identifier has one
NulName == "a<NUL>b"

LookupNames == UniformNames \cup AttribNames \cup {"nonexistent", NulName}

\* CString::new(name) is Err for a name with an interior NUL byte
CStringNew(name) == [ok |-> name # NulName]

Step(call, makes, onFail) == [call |-> call, makes |-> makes, onFail |-> onFail]

\* Shader::compile: new_raw()?, ShaderSource ?, CompileShader ?, COMPILE_STATUS
ShaderCompileSteps(stage, obj) ==
    << Step(<<"CreateShader", stage>>, obj, "Err"),
       Step(<<"ShaderSource", stage>>, "", "Err"),
       Step(<<"CompileShader", stage>>, "", "Err"),
       Step(<<"COMPILE_STATUS", stage>>, "", "Err") >>

\* Program::compile: the two stages with ?, then new_empty().unwrap(),
\* attach().unwrap() twice, LinkProgram and GetProgramiv with
\* explode_if_gl_error().unwrap(), and the LINK_STATUS test returning Err
ProgramCompileSteps ==
    ShaderCompileSteps("vertex", "vertex_shader")
    \o ShaderCompileSteps("fragment", "fragment_shader")
    \o << Step(<<"CreateProgram", "">>, "program", "panic"),
          Step(<<"AttachShader", "vertex">>, "", "panic"),
          Step(<<"AttachShader", "fragment">>, "", "panic"),
          Step(<<"LinkProgram", "">>, "", "panic"),
          Step(<<"GetProgramiv", "">>, "", "panic"),
          Step(<<"LINK_STATUS", "">>, "", "Err") >>

NumCompileSteps == Len(ProgramCompileSteps)

\* the objects made by the steps before the failing step f (all, if f = 0)
MadeBefore(f) ==
    {ProgramCompileSteps[i].makes :
        i \in {j \in 1..NumCompileSteps : (f = 0 \/ j < f)}} \ {""}

\* mutant: the stage objects are detached and kept
ProgramCompileTail_KeepsShaders ==
    << <<"DetachShader", "vertex_shader">>, <<"DetachShader", "fragment_shader">> >>

\* the end of a successful Program::compile: detach twice, Ok(rval), and the
\* locals fragment_shader and vertex_shader go out of scope (Drop for Shader)
ProgramCompileTail ==
    << <<"DetachShader", "vertex_shader">>, <<"DetachShader", "fragment_shader">>,
       <<"DeleteShader", "fragment_shader">>, <<"DeleteShader", "vertex_shader">> >>

\* impl Drop for Program
ProgramDropCalls == << <<"DeleteProgram", "program">> >>

DeletedBy(calls) ==
    {calls[i][2] : i \in {j \in 1..Len(calls) :
                              calls[j][1] \in {"DeleteShader", "DeleteProgram"}}}

\* the outcome of Program::compile whose step f fails (0: none fails)
ProgramCompileRun(f, unwind) ==
    LET made == MadeBefore(f)
    IN  IF f = 0
        THEN [outcome |-> "Ok", created |-> made,
              deleted |-> DeletedBy(ProgramCompileTail), released |-> ProgramCompileTail]
        ELSE IF ProgramCompileSteps[f].onFail = "Err"
        THEN [outcome |-> "Err", created |-> made, deleted |-> made, released |-> <<>>]
        ELSE [outcome |-> "panic", created |-> made,
              deleted |-> IF unwind THEN made ELSE {}, released |-> <<>>]

Tables(names) ==
    {t \in [names -> 0..(Cardinality(names) - 1)] :
        \A a, b \in names : a # b => t[a] # t[b]}

NoLookup == [op |-> "none", name |-> "", outcome |-> "none", value |-> -1, names |-> ""]

ProgStart(unwind) ==
    [state |-> "none", unwind |-> unwind, failedAt |-> 0, outcome |-> "none",
     created |-> {}, deleted |-> {}, released |-> <<>>,
     uniforms |-> [n \in UniformNames |-> 0], attribs |-> [n \in AttribNames |-> 0],
     last |-> NoLookup, failedLookups |-> 0]

ProgInit == ProgStart(TRUE)

ProgramCompile(f, ut, at) ==
    /\ prog.state = "none"
    /\ LET r == ProgramCompileRun(f, prog.unwind)
       IN  prog' = [prog EXCEPT
              !.state = CASE r.outcome = "Ok" -> "linked"
                          [] r.outcome = "Err" -> "failed"
                          [] OTHER -> "crashed",
              !.failedAt = f,
              !.outcome = r.outcome, !.created = r.created, !.deleted = r.deleted,
              !.released = r.released,
              !.uniforms = IF r.outcome = "Ok" THEN ut ELSE @,
              !.attribs = IF r.outcome = "Ok" THEN at ELSE @]
    /\ UNCHANGED notProg

\* the result of one lookup: [outcome, value, names]; names is the name the
\* error message carries
GetUniformLocationRun(name, table, glOk) ==
    IF ~CStringNew(name).ok THEN [outcome |-> "panic", value |-> -1, names |-> ""]
    ELSE IF ~glOk THEN [outcome |-> "Err_gl", value |-> -1, names |-> ""]
    ELSE IF name \notin DOMAIN table
    THEN [outcome |-> "Err_missing", value |-> -1, names |-> name]
    ELSE [outcome |-> "Ok", value |-> table[name], names |-> ""]

GetAttributeLocationRun(name, table, glOk) ==
    IF ~CStringNew(name).ok THEN [outcome |-> "panic", value |-> -1, names |-> ""]
    ELSE IF ~glOk THEN [outcome |-> "Err_gl", value |-> -1, names |-> ""]
    ELSE IF name \notin DOMAIN table
    THEN [outcome |-> "panic", value |-> -1, names |-> name]
    ELSE [outcome |-> "Ok", value |-> table[name], names |-> ""]

AfterLookup(op, name, r) ==
    [prog EXCEPT
        !.state = IF r.outcome = "panic" THEN "crashed" ELSE @,
        !.last = [op |-> op, name |-> name, outcome |-> r.outcome, value |-> r.value,
                  names |-> r.names],
        !.failedLookups = IF r.outcome = "Ok" \/ @ >= MaxFailedLookups THEN @ ELSE @ + 1]

GetUniformLocation(name, glOk) ==
    /\ prog.state = "linked"
    /\ prog' = AfterLookup("get_uniform_location", name,
                           GetUniformLocationRun(name, prog.uniforms, glOk))
    /\ UNCHANGED notProg

GetAttributeLocation(name, glOk) ==
    /\ prog.state = "linked"
    /\ prog' = AfterLookup("get_attribute_location", name,
                           GetAttributeLocationRun(name, prog.attribs, glOk))
    /\ UNCHANGED notProg

\* the Program returned by compile goes out of scope
ProgramScopeEnds ==
    /\ prog.state = "linked"
    /\ prog' = [prog EXCEPT !.state = "dropped",
                            !.released = @ \o ProgramDropCalls,
                            !.deleted = @ \cup DeletedBy(ProgramDropCalls)]
    /\ UNCHANGED notProg

ProgNext ==
    \/ ProgramScopeEnds
    \/ \E f \in 0..NumCompileSteps, ut \in Tables(UniformNames), at \in Tables(AttribNames) :
          ProgramCompile(f, ut, at)
    \/ \E name \in LookupNames, glOk \in BOOLEAN : GetUniformLocation(name, glOk)
    \/ \E name \in LookupNames, glOk \in BOOLEAN : GetAttributeLocation(name, glOk)

(***************************************************************************)
(* The native error queue and explode_if_gl_error (gl_helper.rs).  The     *)
(* queue is the sequence of codes gl::GetError will return, oldest first;  *)
(* it grows when a native call faults.  A wrapper operation issues its     *)
(* native calls and then drains the queue, or does not, as its code says.  *)
(***************************************************************************)
ErrorCodes == {"INVALID_ENUM", "INVALID_OPERATION"}

\* mutant: the first code polled is kept
KeepLast_First(last_err, err) == IF last_err = "none" THEN err ELSE last_err

\* last_err = Some(err)
KeepLast(last_err, err) == err

\* the loop of explode_if_gl_error: poll until gl::GetError returns NO_ERROR
RECURSIVE PollLoop(_, _, _)
PollLoop(q, last_err, polls) ==
    IF q = <<>> THEN [last_err |-> last_err, polls |-> polls + 1, queue |-> q]
    ELSE PollLoop(Tail(q), KeepLast(last_err, Head(q)), polls + 1)

\* match last_err { Some(e) => Err(e), None => Ok(()) }
ExplodeRun(q) ==
    LET r == PollLoop(q, "none", 0)
    IN  [returned |-> IF r.last_err = "none" THEN "Ok" ELSE r.last_err,
         polls |-> r.polls, queue |-> r.queue]

\* operations that end with explode_if_gl_error
DrainingOps ==
    {"Buffer::bind", "BoundBuffers::draw_elements", "Program::use_", "BoundVertexArray::drop"}

\* operations whose last native calls are followed by no drain
NonDrainingOps == {"BoundBuffers::drop", "Buffer::drop", "Program::compile"}

WrapperOps == DrainingOps \cup NonDrainingOps

Raises == {<<>>} \cup {<<c>> : c \in ErrorCodes}

ErrqInit ==
    [queue |-> <<>>, entry |-> <<>>, raised |-> <<>>, op |-> "none",
     returned |-> "none", polls |-> 0, rawUsed |-> FALSE]

\* the application calls the native API itself and the call faults
NativeRaise(code) ==
    /\ Len(errq.queue) < MaxQueue
    /\ errq' = [errq EXCEPT !.queue = Append(@, code), !.entry = errq.queue,
                            !.raised = <<code>>, !.op = "native", !.returned = "none",
                            !.polls = 0, !.rawUsed = TRUE]
    /\ UNCHANGED notErrq

ExplodeIfGlError ==
    /\ LET r == ExplodeRun(errq.queue)
       IN  errq' = [errq EXCEPT !.queue = r.queue, !.entry = errq.queue, !.raised = <<>>,
                                !.op = "explode_if_gl_error", !.returned = r.returned,
                                !.polls = r.polls]
    /\ UNCHANGED notErrq

\* a wrapper operation whose native calls queue the codes in raise
WrapperOp(w, raise) ==
    /\ Len(errq.queue) + Len(raise) <= MaxQueue
    /\ LET q == errq.queue \o raise
           r == ExplodeRun(q)
       IN  errq' = [errq EXCEPT
              !.queue = IF w \in DrainingOps THEN r.queue ELSE q,
              !.entry = errq.queue,
              !.raised = raise,
              !.op = w,
              !.returned = CASE w \in NonDrainingOps -> "unit"
                             [] w = "BoundVertexArray::drop" -> "unit"
                             [] OTHER -> r.returned,
              !.polls = IF w \in DrainingOps THEN r.polls ELSE 0]
    /\ UNCHANGED notErrq

ErrqNext ==
    \/ \E code \in ErrorCodes : NativeRaise(code)
    \/ ExplodeIfGlError
    \/ \E w \in WrapperOps, raise \in Raises : WrapperOp(w, raise)

(***************************************************************************)
(* OpenXRComponent::new (openxr_helpers.rs).  One call: the set-up calls,  *)
(* loop_poll_until_ready, session begin, the swapchain format, one         *)
(* swapchain per view-configuration entry and the image list of every      *)
(* swapchain.  A call is <<name, index, result>>.  The runtime's answers   *)
(* are inputs: the events polled, the call that fails, and the number of   *)
(* images enumerate_images returns for each swapchain; new stores the      *)
(* list as returned.                                                       *)
(***************************************************************************)
PollResults == {"none", "other_event", "state_IDLE", "state_READY", "error"}

ImageCounts == {0, 2}

\* the call of a construction over n views that fails: <<name, index>>
BootFailures(n) ==
    {<<c, 0>> : c \in {"none", "setup", "begin", "enumerate_swapchain_formats",
                       "no_acceptable_format"}}
        \cup {<<c, i>> : c \in {"create_swapchain", "enumerate_images"}, i \in 1..n}

BootStart(n) ==
    [nViewConfigs |-> n, calls |-> <<>>, outcome |-> "none",
     swapchains |-> 0, images |-> <<>>]

BootInit == BootStart(2)

\* mutant: any session-state-changed event ends the wait
PollEnds_AnyState(ev) == ev \in {"state_READY", "state_IDLE"}

\* Event::SessionStateChanged(event) with event.state() == SessionState::READY
PollEnds(ev) == ev = "state_READY"

\* loop_poll_until_ready over the poll results evs: the polls made and how
\* the loop ended ("ready", "error", or "polling" when evs ran out)
RECURSIVE LoopPollUntilReady(_, _)
LoopPollUntilReady(evs, polls) ==
    IF evs = <<>> THEN [polls |-> polls, ended |-> "polling"]
    ELSE LET p == Append(polls, <<"poll_event", 0, Head(evs)>>)
         IN  IF Head(evs) = "error" THEN [polls |-> p, ended |-> "error"]
             ELSE IF PollEnds(Head(evs)) THEN [polls |-> p, ended |-> "ready"]
             ELSE LoopPollUntilReady(Tail(evs), p)

\* for view_config_i in view_config_views.iter()
SwapchainTargets(n) == 1..n

\* the create_swapchain calls, stopping at the failing one (failAt, 0: none)
RECURSIVE CreateSwapchains(_, _, _)
CreateSwapchains(i, targets, failAt) ==
    IF i \notin targets THEN <<>>
    ELSE IF i = failAt THEN << <<"create_swapchain", i, "error">> >>
    ELSE << <<"create_swapchain", i, "ok">> >> \o CreateSwapchains(i + 1, targets, failAt)

\* the enumerate_images calls over the swapchains made
RECURSIVE EnumerateImages(_, _, _)
EnumerateImages(i, made, failAt) ==
    IF i > made THEN <<>>
    ELSE IF i = failAt THEN << <<"enumerate_images", i, "error">> >>
    ELSE << <<"enumerate_images", i, "ok">> >> \o EnumerateImages(i + 1, made, failAt)

CallFailed(c) == c[3] = "error"

NewRun(n, evs, fp, imgs) ==
    LET ff == fp[1]
        failAt == fp[2]
        setup == << <<"create_session", 0, IF ff = "setup" THEN "error" ELSE "ok">> >>
        wait == LoopPollUntilReady(evs, <<>>)
        begin == << <<"session_begin", 0, IF ff = "begin" THEN "error" ELSE "ok">> >>
        formats == << <<"enumerate_swapchain_formats", 0,
                        CASE ff = "enumerate_swapchain_formats" -> "error"
                          [] ff = "no_acceptable_format" -> "no_format"
                          [] OTHER -> "ok">> >>
        creates == CreateSwapchains(1, SwapchainTargets(n),
                                    IF ff = "create_swapchain" THEN failAt ELSE 0)
        made == Len(SelectSeq(creates, LAMBDA c : c[3] = "ok"))
        lists == EnumerateImages(1, made, IF ff = "enumerate_images" THEN failAt ELSE 0)
        Fail(cs) == [calls |-> cs, outcome |-> "Err", swapchains |-> 0, images |-> <<>>]
    IN  IF ff = "setup" THEN Fail(setup)
        ELSE IF wait.ended = "polling"
        THEN [calls |-> setup \o wait.polls, outcome |-> "polling", swapchains |-> 0,
              images |-> <<>>]
        ELSE IF wait.ended = "error" THEN Fail(setup \o wait.polls)
        ELSE IF ff = "begin" THEN Fail(setup \o wait.polls \o begin)
        ELSE IF ff \in {"enumerate_swapchain_formats", "no_acceptable_format"}
        THEN Fail(setup \o wait.polls \o begin \o formats)
        ELSE IF SelectSeq(creates, CallFailed) # <<>>
        THEN Fail(setup \o wait.polls \o begin \o formats \o creates)
        ELSE IF SelectSeq(lists, CallFailed) # <<>>
        THEN Fail(setup \o wait.polls \o begin \o formats \o creates \o lists)
        ELSE [calls |-> setup \o wait.polls \o begin \o formats \o creates \o lists,
              outcome |-> "Ok", swapchains |-> made,
              images |-> [i \in 1..Len(lists) |-> imgs[i]]]

RECURSIVE SeqsUpTo(_, _)
SeqsUpTo(S, k) ==
    IF k = 0 THEN {<<>>}
    ELSE LET shorter == SeqsUpTo(S, k - 1)
         IN  shorter \cup {Append(q, x) : q \in shorter, x \in S}

OpenXRComponentNew(evs, fp, imgs) ==
    /\ boot.outcome = "none"
    /\ LET r == NewRun(boot.nViewConfigs, evs, fp, imgs)
       IN  boot' = [boot EXCEPT !.calls = r.calls, !.outcome = r.outcome,
                                !.swapchains = r.swapchains, !.images = r.images]
    /\ UNCHANGED notBoot

BootNext ==
    \E evs \in SeqsUpTo(PollResults, MaxPolls), fp \in BootFailures(boot.nViewConfigs),
       imgs \in [1..boot.nViewConfigs -> ImageCounts] :
       OpenXRComponentNew(evs, fp, imgs)

(***************************************************************************)
(* OpenXRComponent::poll_till_no_events (openxr_helpers.rs).  The runtime  *)
(* queues events; poll_event takes the oldest, returns None when there is  *)
(* none, or fails.  Which poll of a call fails is an input (0: none).      *)
(***************************************************************************)
QueuedEvents == {"other_event", "state_READY", "state_STOPPING"}

EvqInit ==
    [queue |-> <<>>, entry |-> <<>>, failAt |-> 0, returned |-> "none", polls |-> 0]

\* mutant: any session-state-changed event stops the loop
IsStopRequest_AnyState(ev) == ev \in {"state_READY", "state_STOPPING"}

\* Event::SessionStateChanged(ch) with ch.state() == SessionState::STOPPING
IsStopRequest(ev) == ev = "state_STOPPING"

\* the loop of poll_till_no_events on queue q after polls polls
RECURSIVE PollTillNoEventsRun(_, _, _)
PollTillNoEventsRun(q, failAt, polls) ==
    IF failAt = polls + 1 THEN [returned |-> "Err", queue |-> q, polls |-> polls + 1]
    ELSE IF q = <<>> THEN [returned |-> "Groovy", queue |-> q, polls |-> polls + 1]
    ELSE IF IsStopRequest(Head(q))
    THEN [returned |-> "PleaseStop", queue |-> Tail(q), polls |-> polls + 1]
    ELSE PollTillNoEventsRun(Tail(q), failAt, polls + 1)

\* the runtime queues an event
EventArrives(ev) ==
    /\ Len(evq.queue) < MaxEvents
    /\ evq' = [evq EXCEPT !.queue = Append(@, ev), !.entry = <<>>, !.failAt = 0,
                          !.returned = "none", !.polls = 0]
    /\ UNCHANGED notEvq

PollTillNoEvents(failAt) ==
    /\ LET r == PollTillNoEventsRun(evq.queue, failAt, 0)
       IN  evq' = [queue |-> r.queue, entry |-> evq.queue, failAt |-> failAt,
                   returned |-> r.returned, polls |-> r.polls]
    /\ UNCHANGED notEvq

EvqNext ==
    \/ \E ev \in QueuedEvents : EventArrives(ev)
    \/ \E failAt \in 0..(MaxEvents + 1) : PollTillNoEvents(failAt)

(***************************************************************************)
(* Attribute wiring (gl_fancy.rs BoundVertexArray::rig_one_attribute and    *)
(* the constructors of VertexBufferBundle).  gl::VertexAttribPointer        *)
(* records, in the bound vertex array, the layout and the buffer bound at   *)
(* ARRAY_BUFFER at that moment; gl::EnableVertexAttribArray sets the flag.  *)
(* Vertex array 1 belongs to the bundle made by new (vertex buffer 1),      *)
(* vertex array 2 to its reuse, vertex array 3 to from_buffers over a       *)
(* VertexBufferLite (vertex buffer 3); buffer 5 is a loose ARRAY_BUFFER.    *)
(***************************************************************************)
WireVaos == {1, 2, 3}

WireArrayBuffers == {1, 3, 5}

Locations == {0, 1}

\* (location, width, stride, offset) as rig_one_attribute takes them, in floats
AttrArgs == {<<0, 3, 5, 0>>, <<1, 2, 5, 3>>, <<0, 2, 5, 3>>}

AttrLists == {<<>>, << <<0, 3, 5, 0>> >>, << <<0, 3, 5, 0>>, <<1, 2, 5, 3>> >>,
              << <<1, 2, 5, 3>> >>}

\* size_of::<AT>() for AT = GLfloat
SizeOfAT == 4

\* the state of a generic vertex attribute of a fresh vertex array
UnsetAttr ==
    [size |-> 4, type |-> "FLOAT", stride |-> 0, offset |-> 0, buffer |-> 0,
     enabled |-> FALSE]

FreshVao == [l \in Locations |-> UnsetAttr]

\* mutant: the byte stride of a rewired attribute adds to the one it had
VertexAttribPointer_Accumulates(cfg, a, buf) ==
    [cfg EXCEPT !.size = a[2], !.type = "FLOAT", !.stride = @ + a[3] * SizeOfAT,
                !.offset = a[4] * SizeOfAT, !.buffer = buf]

\* gl::VertexAttribPointer(location, width, AT::TYPE_CODE, FALSE,
\*                         stride * size_of::<AT>(), gl_offset_for::<AT>(offset))
VertexAttribPointer(cfg, a, buf) ==
    [cfg EXCEPT !.size = a[2], !.type = "FLOAT", !.stride = a[3] * SizeOfAT,
                !.offset = a[4] * SizeOfAT, !.buffer = buf]

\* gl::EnableVertexAttribArray(location)
EnableVertexAttribArray(cfg) == [cfg EXCEPT !.enabled = TRUE]

\* the native API rejects a non-null pointer while no buffer is bound at
\* ARRAY_BUFFER and a vertex array object is bound (INVALID_OPERATION)
PointerRejected(a, buf) == buf = 0 /\ a[4] # 0

\* rig_multi_attributes on the attributes of one vertex array: native call
\* number f raises (0: none is made to); k calls were issued before
RECURSIVE RigMultiAttributesRun(_, _, _, _, _)
RigMultiAttributesRun(vaoAttrs, attrs, buf, f, k) ==
    IF attrs = <<>> THEN [attrs |-> vaoAttrs, ok |-> TRUE]
    ELSE LET a == Head(attrs)
             pointed == [vaoAttrs EXCEPT ![a[1]] = VertexAttribPointer(@, a, buf)]
             enabled == [pointed EXCEPT ![a[1]] = EnableVertexAttribArray(@)]
         IN  IF f = k + 1 \/ PointerRejected(a, buf)
             THEN [attrs |-> vaoAttrs, ok |-> FALSE]
             ELSE IF f = k + 2 THEN [attrs |-> pointed, ok |-> FALSE]
             ELSE RigMultiAttributesRun(enabled, Tail(attrs), buf, f, k + 2)

\* the last operation: before is the vertex array's attributes when the call
\* began; repeats says that the call before it was the same successful wiring
\* (same vertex array, arguments and ARRAY_BUFFER binding)
WireOp(op, vao, attrs, buf, ok, before, repeats) ==
    [op |-> op, vao |-> vao, attrs |-> attrs, buffer |-> buf, ok |-> ok,
     before |-> before, repeats |-> repeats]

NoWireOp == WireOp("none", 0, <<>>, 0, TRUE, FreshVao, FALSE)

WireInit ==
    [arrayBuffer |-> 0, made |-> {}, vertex_buffer |-> [v \in WireVaos |-> 0],
     table |-> [v \in WireVaos |-> FreshVao], last |-> NoWireOp]

\* the end of a constructor that reached the wiring of vertex array vao for
\* a bundle whose vertex buffer is vb, with buf bound at ARRAY_BUFFER
Constructed(op, vao, vb, attrs, buf, f) ==
    LET r == RigMultiAttributesRun(FreshVao, attrs, buf, f, 0)
    IN  [wire EXCEPT
            !.arrayBuffer = buf,
            !.made = IF r.ok THEN @ \cup {vao} ELSE @,
            !.vertex_buffer[vao] = IF r.ok THEN vb ELSE @,
            !.table[vao] = IF r.ok THEN r.attrs ELSE FreshVao,
            !.last = WireOp(op, vao, attrs, buf, r.ok, FreshVao, FALSE)]

\* VertexBufferBundle::new: vertex_buffer.bound(gpu_state)?.load_any(..)? leaves
\* the new vertex buffer bound at ARRAY_BUFFER (OneBoundBuffer has no Drop)
WireNew(attrs, f) ==
    /\ 1 \notin wire.made
    /\ wire' = Constructed("VertexBufferBundle::new", 1, 1, attrs, 1, f)
    /\ UNCHANGED notWire

\* VertexBufferBundle::reuse: VertexArray::incomplete()?, vao.bound(gpu_state)?
\* and the wiring; no buffer is bound
WireReuse(attrs, f) ==
    /\ 1 \in wire.made /\ 2 \notin wire.made
    /\ wire' = Constructed("VertexBufferBundle::reuse", 2, wire.vertex_buffer[1], attrs,
                           wire.arrayBuffer, f)
    /\ UNCHANGED notWire

\* VertexBufferBundle::from_buffers over a VertexBufferLite
WireFromBuffers(attrs, f) ==
    /\ 3 \notin wire.made
    /\ wire' = Constructed("VertexBufferBundle::from_buffers", 3, 3, attrs,
                           wire.arrayBuffer, f)
    /\ UNCHANGED notWire

\* vao.bound(gpu_state)?.rig_one_attribute(location, width, stride, offset)
WireRigOneAttribute(vao, a, f) ==
    /\ vao \in wire.made
    /\ LET r == RigMultiAttributesRun(wire.table[vao], <<a>>, wire.arrayBuffer, f, 0)
           repeats == /\ wire.last.op = "rig_one_attribute" /\ wire.last.ok
                      /\ wire.last.vao = vao /\ wire.last.attrs = <<a>>
                      /\ wire.last.buffer = wire.arrayBuffer
       IN  wire' = [wire EXCEPT
                      !.table[vao] = r.attrs,
                      !.last = WireOp("rig_one_attribute", vao, <<a>>, wire.arrayBuffer,
                                      r.ok, wire.table[vao], repeats)]
    /\ UNCHANGED notWire

\* Buffer::bound on an ARRAY_BUFFER buffer (an upload): the buffer stays bound
WireBufferBound(h) ==
    /\ wire.arrayBuffer # h
    /\ wire' = [wire EXCEPT !.arrayBuffer = h,
                            !.last = WireOp("Buffer::bound", 0, <<>>, h, TRUE, FreshVao,
                                            FALSE)]
    /\ UNCHANGED notWire

\* VertexBufferBundle::bind and the drop of its token: ARRAY_BUFFER is unbound
WireBindAndDrop(vao) ==
    /\ vao \in wire.made
    /\ wire.arrayBuffer # 0
    /\ wire' = [wire EXCEPT !.arrayBuffer = 0,
                            !.last = WireOp("bind_and_drop", vao, <<>>, 0, TRUE, FreshVao,
                                            FALSE)]
    /\ UNCHANGED notWire

\* the constructors among the binds, uploads and token drops of a program
WireNext ==
    \/ \E attrs \in AttrLists, f \in 0..4 : WireNew(attrs, f)
    \/ \E attrs \in AttrLists, f \in 0..4 : WireReuse(attrs, f)
    \/ \E attrs \in AttrLists, f \in 0..4 : WireFromBuffers(attrs, f)
    \/ \E h \in WireArrayBuffers : WireBufferBound(h)
    \/ \E vao \in WireVaos : WireBindAndDrop(vao)

\* wiring and rewiring the attributes of the bundle made by new
RewireNext ==
    \/ \E attrs \in AttrLists, f \in 0..4 : WireNew(attrs, f)
    \/ \E a \in AttrArgs, f \in 0..2 : WireRigOneAttribute(1, a, f)
    \/ \E h \in WireArrayBuffers : WireBufferBound(h)
    \/ WireBindAndDrop(1)

(***************************************************************************)
(* The revision with BoundBuffersMut (example1/src/gl_fancy.rs).  Bundle b *)
(* has vertex array b, vertex buffer 10b + 1 and index buffer 10b + 2.     *)
(* A BoundBuffersMut borrows the GPUState exclusively; plain() makes a     *)
(* BoundBuffers value that borrows the token, and BoundBuffers has a Drop. *)
(***************************************************************************)
Ex1Bundles == {1, 2}

Ex1BindCalls(b) ==
    << <<"BindVertexArray", "VERTEX_ARRAY", b>>,
       <<"BindBuffer", "ARRAY_BUFFER", 10 * b + 1>>,
       <<"BindBuffer", "ELEMENT_ARRAY_BUFFER", 10 * b + 2>> >>

\* impl Drop for BoundBuffers and impl Drop for BoundBuffersMut
Ex1DropCalls ==
    << <<"BindBuffer", "ELEMENT_ARRAY_BUFFER", 0>>,
       <<"BindBuffer", "ARRAY_BUFFER", 0>>,
       <<"BindVertexArray", "VERTEX_ARRAY", 0>> >>

\* token is the bundle a live BoundBuffersMut was made for, bound the bundle
\* a live BoundBuffers made by bind() was made for (0: none)
Ex1Init ==
    [bindings |-> NullBindings, token |-> 0, bound |-> 0, views |-> 0, op |-> "none",
     ok |-> TRUE]

\* VertexBufferBundle::bind_mut -> GPUState::bind_vertex_array_and_buffers_mut
Ex1BindMut(b, f) ==
    /\ ex1.token = 0 /\ ex1.bound = 0
    /\ LET r == RunChecked(ex1.bindings, Ex1BindCalls(b), f)
       IN  ex1' = [bindings |-> r.bd, token |-> IF r.ok THEN b ELSE 0, bound |-> 0,
                   views |-> 0, op |-> "bind_mut", ok |-> r.ok]
    /\ UNCHANGED notEx1

\* VertexBufferBundle::bind: binds the three itself, then through
\* GPUState::bind_vertex_array_and_buffers, which makes the BoundBuffers
Ex1Bind(b, f) ==
    /\ ex1.token = 0 /\ ex1.bound = 0
    /\ LET r == RunChecked(ex1.bindings, Ex1BindCalls(b) \o Ex1BindCalls(b), f)
       IN  ex1' = [bindings |-> r.bd, token |-> 0, bound |-> IF r.ok THEN b ELSE 0,
                   views |-> 0, op |-> "bind", ok |-> r.ok]
    /\ UNCHANGED notEx1

\* VertexBufferBundle::bind_primitive: no token
Ex1BindPrimitive(b, f) ==
    /\ ex1.token = 0 /\ ex1.bound = 0
    /\ LET r == RunChecked(ex1.bindings, Ex1BindCalls(b), f)
       IN  ex1' = [ex1 EXCEPT !.bindings = r.bd, !.op = "bind_primitive", !.ok = r.ok]
    /\ UNCHANGED notEx1

\* the BoundBuffers made by bind() goes out of scope
Ex1DropBound ==
    /\ ex1.bound # 0
    /\ ex1' = [ex1 EXCEPT !.bindings = ApplyCalls(@, Ex1DropCalls), !.bound = 0,
                          !.op = "drop_bound", !.ok = TRUE]
    /\ UNCHANGED notEx1

\* BoundBuffersMut::plain
Ex1Plain ==
    /\ ex1.token # 0
    /\ ex1.views < MaxViews
    /\ ex1' = [ex1 EXCEPT !.views = @ + 1, !.op = "plain", !.ok = TRUE]
    /\ UNCHANGED notEx1

\* BoundBuffers::draw_elements, on a view made by plain() or on the token of bind()
Ex1DrawElements(ok) ==
    /\ ex1.views > 0 \/ ex1.bound # 0
    /\ ex1' = [ex1 EXCEPT !.op = "draw_elements", !.ok = ok]
    /\ UNCHANGED notEx1

\* BoundBuffersMut::rig_one_attribute
Ex1RigOneAttribute(ok) ==
    /\ ex1.token # 0
    /\ ex1' = [ex1 EXCEPT !.op = "rig_one_attribute", !.ok = ok]
    /\ UNCHANGED notEx1

\* a view made by plain() goes out of scope: impl Drop for BoundBuffers
Ex1DropPlain ==
    /\ ex1.views > 0
    /\ ex1' = [ex1 EXCEPT !.bindings = ApplyCalls(@, Ex1DropCalls), !.views = @ - 1,
                          !.op = "drop_plain", !.ok = TRUE]
    /\ UNCHANGED notEx1

\* the token goes out of scope, after its views: impl Drop for BoundBuffersMut
Ex1DropMut ==
    /\ ex1.token # 0
    /\ ex1.views = 0
    /\ ex1' = [ex1 EXCEPT !.bindings = ApplyCalls(@, Ex1DropCalls), !.token = 0,
                          !.op = "drop_mut", !.ok = TRUE]
    /\ UNCHANGED notEx1

Ex1Next ==
    \/ \E b \in Ex1Bundles, f \in 0..3 : Ex1BindMut(b, f)
    \/ \E b \in Ex1Bundles, f \in 0..6 : Ex1Bind(b, f)
    \/ \E b \in Ex1Bundles, f \in 0..3 : Ex1BindPrimitive(b, f)
    \/ Ex1DropBound
    \/ Ex1Plain
    \/ \E ok \in BOOLEAN : Ex1DrawElements(ok)
    \/ \E ok \in BOOLEAN : Ex1RigOneAttribute(ok)
    \/ Ex1DropPlain
    \/ Ex1DropMut

(***************************************************************************)
(* The active texture unit (gl_fancy.rs GPUState::set_active_texture, and  *)
(* the shaders' draw helpers in bob-shaders).  recorded is the field        *)
(* GPUState::active_texture_unit, native the context's active unit, and    *)
(* texAt the texture bound at TEXTURE_2D of each unit of the context.      *)
(***************************************************************************)
\* the texture units of the context
TextureUnits == {0, 1, 2}

\* ActiveTextureUnit(pub u32) values a caller passes; 3 is not a unit of the context
UnitArgs == {0, 1, 2, 3}

AtuTextures == {1, 2}

AtuInit ==
    [recorded |-> 0, native |-> 0, texAt |-> [u \in TextureUnits |-> 0], op |-> "new",
     ok |-> TRUE]

\* gl::ActiveTexture(TEXTURE0 + idx): INVALID_ENUM for a unit the context lacks
ActiveTexture(native, idx) ==
    IF idx \in TextureUnits THEN [native |-> idx, ok |-> TRUE]
    ELSE [native |-> native, ok |-> FALSE]

\* GPUState::set_active_texture
SetActiveTexture(idx) ==
    /\ LET r == ActiveTexture(atu.native, idx)
       IN  atu' = [atu EXCEPT !.recorded = idx, !.native = r.native,
                             !.op = "set_active_texture", !.ok = r.ok]
    /\ UNCHANGED notAtu

\* RawTextureShader::set_params: use_, gpu_state.set_active_texture(unit)?,
\* texture.bind()?, and the uniforms
RawTextureShaderSetParams(idx, tex) ==
    /\ LET r == ActiveTexture(atu.native, idx)
       IN  atu' = [atu EXCEPT !.recorded = idx, !.native = r.native,
                             !.texAt = IF r.ok THEN [@ EXCEPT ![r.native] = tex] ELSE @,
                             !.op = "RawTextureShader::set_params", !.ok = r.ok]
    /\ UNCHANGED notAtu

\* MaskedSolidShader::draw: use_, gl::ActiveTexture(gl::TEXTURE0 + 0) called
\* directly, mask.bind()?, the parameters and the draw
MaskedSolidShaderDraw(tex) ==
    /\ LET r == ActiveTexture(atu.native, 0)
       IN  atu' = [atu EXCEPT !.native = r.native,
                             !.texAt = [@ EXCEPT ![r.native] = tex],
                             !.op = "MaskedSolidShader::draw", !.ok = r.ok]
    /\ UNCHANGED notAtu

\* Texture::bound(target, gpu_state): binds at the unit that is active
AtuTextureBound(tex) ==
    /\ atu' = [atu EXCEPT !.texAt = [@ EXCEPT ![atu.native] = tex],
                          !.op = "Texture::bound", !.ok = TRUE]
    /\ UNCHANGED notAtu

AtuNext ==
    \/ \E idx \in UnitArgs : SetActiveTexture(idx)
    \/ \E idx \in UnitArgs, tex \in AtuTextures : RawTextureShaderSetParams(idx, tex)
    \/ \E tex \in AtuTextures : MaskedSolidShaderDraw(tex)
    \/ \E tex \in AtuTextures : AtuTextureBound(tex)

\* every part of the program before its first operation
GLIdle == GLInit

ResIdle == wrappers = WrappersInit

XRIdle == xr = XRInit(1)

PixIdleState == pix = PixIdle

ShareIdle == share = ShareInit

ProgIdle == prog = ProgInit

ErrqIdle == errq = ErrqInit

BootIdle == boot = BootInit

EvqIdle == evq = EvqInit

WireIdle == wire = WireInit

Ex1Idle == ex1 = Ex1Init

AtuIdle == atu = AtuInit

Init ==
    /\ EvqIdle
    /\ WireIdle
    /\ Ex1Idle
    /\ AtuIdle
    /\ GLInit /\ ResIdle /\ XRIdle /\ PixIdleState
    /\ ShareIdle /\ ProgIdle /\ ErrqIdle /\ BootIdle

Next == GLNext

Spec == Init /\ [][Next]_vars

ResInit == Init

SpecRes == ResInit /\ [][ResNext]_vars

XRStart ==
    /\ EvqIdle
    /\ WireIdle
    /\ Ex1Idle
    /\ AtuIdle
    /\ GLInit /\ ResIdle /\ PixIdleState
    /\ ShareIdle /\ ProgIdle /\ ErrqIdle /\ BootIdle
    /\ xr \in {XRInit(n) : n \in 1..MaxEyes}

SpecXR == XRStart /\ [][XRNext]_vars

PixStart ==
    /\ EvqIdle
    /\ WireIdle
    /\ Ex1Idle
    /\ AtuIdle
    /\ GLInit /\ ResIdle /\ XRIdle
    /\ ShareIdle /\ ProgIdle /\ ErrqIdle /\ BootIdle
    /\ pix \in PixInputs

SpecPix == PixStart /\ [][PixNext]_vars

SpecShare == Init /\ [][ShareNext]_vars

ProgBegin ==
    /\ EvqIdle
    /\ WireIdle
    /\ Ex1Idle
    /\ AtuIdle
    /\ GLInit /\ ResIdle /\ XRIdle /\ PixIdleState
    /\ ShareIdle /\ ErrqIdle /\ BootIdle
    /\ prog \in {ProgStart(unwind) : unwind \in BOOLEAN}

SpecProg == ProgBegin /\ [][ProgNext]_vars

SpecErrq == Init /\ [][ErrqNext]_vars

BootBegin ==
    /\ EvqIdle
    /\ WireIdle
    /\ Ex1Idle
    /\ AtuIdle
    /\ GLInit /\ ResIdle /\ XRIdle /\ PixIdleState
    /\ ShareIdle /\ ProgIdle /\ ErrqIdle
    /\ boot \in {BootStart(n) : n \in 0..MaxEyes}

SpecBoot == BootBegin /\ [][BootNext]_vars

SpecEvq == Init /\ [][EvqNext]_vars

SpecWire == Init /\ [][WireNext]_vars

SpecRewire == Init /\ [][RewireNext]_vars

SpecEx1 == Init /\ [][Ex1Next]_vars

SpecAtu == Init /\ [][AtuNext]_vars

\* the drawing sequence: Program::compile, VertexBufferBundle::new, then bind,
\* draw_elements on the token and the token's drop, repeatedly
DrawNext ==
    \/ \E f \in 0..NumCompileSteps, ut \in Tables(UniformNames), at \in Tables(AttribNames) :
          ProgramCompile(f, ut, at)
    \/ /\ prog.state = "linked"
       /\ \E b \in Bundles, n \in 0..MaxAttrs, f \in 0..(8 + 2 * MaxAttrs) :
             f <= 8 + 2 * n /\ VertexBufferBundleNew(b, n, f)
    \/ /\ prog.state = "linked"
       /\ lastOp.op \in {"VertexBufferBundle::new", "VertexBufferBundle::bind", "drop"}
       /\ \E b \in Bundles, f \in 0..3 : Bind(b, f)
    \/ /\ lastOp.op = "VertexBufferBundle::bind"
       /\ \E t \in tokens, f \in 0..1 : DrawElements(t, IndexCountOf(t.VERTEX_ARRAY), f)
    \/ /\ lastOp.op = "BoundBuffers::draw_elements"
       /\ \E t \in tokens : DropToken(t)

SpecDraw == ProgBegin /\ [][DrawNext]_vars

(***************************************************************************)
(* C1: when a BoundBuffers token has just been dropped, the                *)
(* ELEMENT_ARRAY_BUFFER, ARRAY_BUFFER and vertex-array registers all hold  *)
(* the null handle 0, and the drop issued exactly the three unbinds, index *)
(* buffer first, then array buffer, then vertex array.                     *)
(***************************************************************************)
C1_DropUnbindsAll ==
    (lastOp.op = "drop" /\ lastOp.tok.kind = "BoundBuffers") =>
        /\ bindings.ELEMENT_ARRAY_BUFFER = 0
        /\ bindings.ARRAY_BUFFER = 0
        /\ bindings.VERTEX_ARRAY = 0
        /\ log = << <<"BindBuffer", "ELEMENT_ARRAY_BUFFER", 0>>,
                    <<"BindBuffer", "ARRAY_BUFFER", 0>>,
                    <<"BindVertexArray", "VERTEX_ARRAY", 0>> >>

\* a BoundBuffers token was dropped while a buffer token made through its
\* gpu_state reference, which had rebound ARRAY_BUFFER, is still alive
C1_Witness ==
    /\ lastOp.op = "drop"
    /\ lastOp.tok.kind = "BoundBuffers"
    /\ \E t \in tokens : t.kind = "OneBoundBuffer"

(***************************************************************************)
(* C3: while a BoundBuffers token is alive, the vertex-array, ARRAY_BUFFER *)
(* and ELEMENT_ARRAY_BUFFER registers hold the handles the token was       *)
(* created with.                                                           *)
(***************************************************************************)
C3_LiveTokenHoldsBindings ==
    \A t \in tokens :
        t.kind = "BoundBuffers" =>
            /\ bindings.VERTEX_ARRAY = t.VERTEX_ARRAY
            /\ bindings.ARRAY_BUFFER = t.ARRAY_BUFFER
            /\ bindings.ELEMENT_ARRAY_BUFFER = t.ELEMENT_ARRAY_BUFFER

(***************************************************************************)
(* C9: when a BoundTexture, BoundVertexArray or OneBoundBuffer token has   *)
(* just been dropped, the register it had bound holds the null handle 0.   *)
(***************************************************************************)
C9_OtherTokensUnbindOnDrop ==
    (lastOp.op = "drop"
        /\ lastOp.tok.kind \in {"BoundTexture", "BoundVertexArray", "OneBoundBuffer"}) =>
        \A target \in DOMAIN bindings :
            lastOp.tok[target] # 0 => bindings[target] = 0

IsUploadOrWiring(e) ==
    e[1] \in {"BufferData", "VertexAttribPointer", "EnableVertexAttribArray"}

(***************************************************************************)
(* C10: in a successful VertexBufferBundle::new no bound-state token is    *)
(* acquired or released between the first buffer upload and the last      *)
(* upload or attribute wiring call.                                        *)
(***************************************************************************)
C10_NewUnderOneToken ==
    (lastOp.op = "VertexBufferBundle::new" /\ lastOp.ok) =>
        \A i, j, k \in 1..Len(log) :
            (i < j /\ j < k /\ IsUploadOrWiring(log[i]) /\ IsUploadOrWiring(log[k]))
                => log[j][1] \notin {"acquire", "release"}

(***************************************************************************)
(* C2 as stated: a destroyed wrapper whose handle came from the native     *)
(* allocate call has issued the native delete exactly once, and a          *)
(* destroyed wrapper made by Texture::borrowed has issued none.            *)
(***************************************************************************)
C2_DeletedOnceIfAllocated ==
    \A s \in Slots :
        wrappers[s].life = "dropped" =>
            /\ wrappers[s].origin = "allocated" => wrappers[s].deletes = 1
            /\ wrappers[s].origin = "borrowed" => wrappers[s].deletes = 0

(***************************************************************************)
(* C2 amended: a live wrapper has issued no delete; a destroyed wrapper    *)
(* has issued the native delete exactly once if it still owned its handle  *)
(* at destruction (allocated or adopted, and not given up through          *)
(* Shader::unmanage) and never otherwise, whether its scope ended normally *)
(* or was left early on an error.                                          *)
(***************************************************************************)
C2_DeletedOnceIfStillOwned ==
    \A s \in Slots :
        /\ wrappers[s].life = "live" => wrappers[s].deletes = 0
        /\ wrappers[s].life = "dropped" =>
              wrappers[s].deletes = (IF wrappers[s].own = "Owned" THEN 1 ELSE 0)

\* an owned wrapper destroyed on the early-exit path next to a destroyed
\* borrowed texture
C2_Witness ==
    \E s, t \in Slots :
        /\ wrappers[s].life = "dropped"
        /\ wrappers[s].exit = "early_exit"
        /\ wrappers[s].own = "Owned"
        /\ wrappers[s].deletes = 1
        /\ wrappers[t].life = "dropped"
        /\ wrappers[t].origin = "borrowed"
        /\ wrappers[t].deletes = 0

XRRank(e) ==
    CASE e[1] = "wait" -> 1
      [] e[1] = "begin" -> 2
      [] e[1] = "locate_views" -> 3
      [] e[1] = "before_paint" -> 4
      [] e[1] = "acquire_image" -> 10 * e[2] + 1
      [] e[1] = "wait_image" -> 10 * e[2] + 2
      [] e[1] = "paint_one_view" -> 10 * e[2] + 3
      [] e[1] = "release_image" -> 10 * e[2] + 4
      [] e[1] = "after_paint" -> 10 * (xr.nEyes + 1)
      [] e[1] = "projection_layer" -> 10 * (xr.nEyes + 1) + 1
      [] OTHER -> 10 * (xr.nEyes + 1) + 2

Before(call, eye, j) == \E i \in 1..(j - 1) : xr.log[i] = Ev(call, eye, TRUE)

(***************************************************************************)
(* C4: the calls of one paint_vr_multiview run are in the order wait,      *)
(* begin, locate views, then per eye in index order acquire, wait image,   *)
(* paint, release, then end; an acquire only follows a successful          *)
(* locate_views, a paint only follows the successful acquire and wait      *)
(* image of its eye, and a run that returns Ok made every one of them.     *)
(***************************************************************************)
C4_CallOrder ==
    /\ \A i, j \in 1..Len(xr.log) : i < j => XRRank(xr.log[i]) < XRRank(xr.log[j])
    /\ \A j \in 1..Len(xr.log) :
          /\ xr.log[j][1] = "acquire_image" => Before("locate_views", 0, j)
          /\ xr.log[j][1] = "paint_one_view" =>
                /\ Before("acquire_image", xr.log[j][2], j)
                /\ Before("wait_image", xr.log[j][2], j)
    /\ xr.result.status = "ok" =>
          /\ \A c \in {"wait", "begin", "locate_views", "end"} : Has(xr.log, c, TRUE)
          /\ \A eye \in Eyes(xr.nEyes) :
                \A c \in {"acquire_image", "wait_image", "paint_one_view", "release_image"} :
                    Before(c, eye, Len(xr.log))

\* a run over at least two eyes that returned Ok, and so made every call
C4_Witness ==
    /\ xr.result.status = "ok"
    /\ xr.nEyes >= 2
    /\ Has(xr.log, "end", TRUE)

CountOf(call, eye) ==
    Cardinality({i \in 1..Len(xr.log) : xr.log[i][1] = call /\ xr.log[i][2] = eye})

FailedAt == {i \in 1..Len(xr.log) : ~xr.log[i][3]}

EyeFailedAt ==
    {i \in FailedAt : xr.log[i][1] \in {"acquire_image", "wait_image", "release_image"}}

C7_BeginAfterEnd ==
    (Has(xr.log, "begin", TRUE) \/ Has(xr.log, "begin", FALSE)) => ~xr.openAtEntry

\* width * height * bpp = len over the integers, by division so that no
\* intermediate value leaves 32 bits
TrueSizeEquals(w, h, bpp, len) ==
    IF w = 0 \/ h = 0 THEN len = 0
    ELSE /\ (w > 0) = (h > 0)
         /\ len % bpp = 0
         /\ (len \div bpp) % Abs(w) = 0
         /\ (len \div bpp) \div Abs(w) = Abs(h)

(***************************************************************************)
(* C8: after write_pixels or write_pixels_and_generate_mipmap on byte      *)
(* data: an unsupported format gives the format error and no native call;  *)
(* a slice whose length differs from width*height*bytes_per_pixel gives    *)
(* the size-mismatch error and no upload or mipmap call; a slice of that   *)
(* length gets exactly one upload, and the call returns Ok when the native *)
(* API reports no error.                                                   *)
(***************************************************************************)
C8_SizeChecked ==
    (pix.state = "done" /\ pix.elem = 1) =>
        LET b == BytesPerPixel(pix.format, pix.elem)
        IN  IF ~b.ok
            THEN pix.outcome = "Err_format" /\ pix.uploaded = 0 /\ pix.mipmap = 0
            ELSE IF ~TrueSizeEquals(pix.width, pix.height, b.bpp, pix.len)
            THEN pix.outcome = "Err_size" /\ pix.uploaded = 0 /\ pix.mipmap = 0
            ELSE /\ pix.uploaded = 1
                 /\ (pix.texOk /\ pix.op = "write_pixels") => pix.outcome = "Ok"
                 /\ (pix.texOk /\ pix.op = "write_pixels_and_generate_mipmap") =>
                        pix.mipmap = 1

(***************************************************************************)
(* C11: bundles and buffer sets that stem from the same source hold the    *)
(* same vertex-buffer handle, the same index-buffer handle and the same    *)
(* index_count; any two bundles have different vertex-array handles; and   *)
(* reuse and from_buffers issue no buffer allocation.                      *)
(***************************************************************************)
C11_SharedBuffersOwnVertexArray ==
    /\ \A a, b \in Holders :
          /\ share.slots[a].vertex_buffer = share.slots[b].vertex_buffer
          /\ share.slots[a].index_buffer = share.slots[b].index_buffer
          /\ share.slots[a].index_count = share.slots[b].index_count
    /\ \A a, b \in BundlesHeld :
          a # b => share.slots[a].vertex_array # share.slots[b].vertex_array
    /\ share.last.op \in {"reuse", "from_buffers"} =>
          \A k \in 1..Len(share.last.gens) : share.last.gens[k] # "GenBuffers"

\* a source bundle and two bundles made from it by reuse are alive together
C11_Witness ==
    /\ share.last.op = "reuse"
    /\ share.last.ok
    /\ Cardinality(BundlesHeld) >= 3
    /\ \E a \in BundlesHeld : share.slots[a].index_count = 3

(***************************************************************************)
(* C12: after get_attribute_location on a linked program with a name that  *)
(* is not an active attribute, the call has returned an error value and    *)
(* the program has not crashed.                                            *)
(***************************************************************************)
C12_AbsentAttributeIsError ==
    (prog.last.op = "get_attribute_location" /\ prog.last.name \notin AttribNames) =>
        /\ prog.last.outcome \in {"Err_missing", "Err_gl"}
        /\ prog.state # "crashed"

(***************************************************************************)
(* C13: after get_uniform_location on a linked program, when the native    *)
(* API raised no error: a name that is not an active uniform gave an error *)
(* value carrying that name and no crash; a name that is an active uniform *)
(* gave the location the driver assigned at link time, whether or not      *)
(* lookups failed before.                                                  *)
(***************************************************************************)
C13_AbsentUniformIsError ==
    (prog.last.op = "get_uniform_location" /\ prog.last.outcome # "Err_gl") =>
        IF prog.last.name \in UniformNames
        THEN prog.last.outcome = "Ok" /\ prog.last.value = prog.uniforms[prog.last.name]
        ELSE /\ prog.last.outcome = "Err_missing"
             /\ prog.last.names = prog.last.name
             /\ prog.state # "crashed"

(***************************************************************************)
(* C14: when a step of Program::compile fails, the call has returned an    *)
(* error value (it has not panicked) and every shader and program object   *)
(* it created has been deleted.                                            *)
(***************************************************************************)
C14_CompileFailureIsErrorAndClean ==
    (prog.state \in {"failed", "crashed"} /\ prog.last.op = "none") =>
        /\ prog.outcome = "Err"
        /\ prog.deleted = prog.created

(***************************************************************************)
(* C15: after explode_if_gl_error, it has returned Ok exactly when the     *)
(* queue was empty at the call, and otherwise the error carrying the code  *)
(* queued last; the queue is empty; and it polled once per queued code and *)
(* once more.                                                              *)
(***************************************************************************)
C15_DrainReportsLast ==
    errq.op = "explode_if_gl_error" =>
        /\ (errq.returned = "Ok") <=> (errq.entry = <<>>)
        /\ errq.entry # <<>> => errq.returned = errq.entry[Len(errq.entry)]
        /\ errq.queue = <<>>
        /\ errq.polls = Len(errq.entry) + 1

\* the call found two different codes queued
C15_Witness ==
    /\ errq.op = "explode_if_gl_error"
    /\ Len(errq.entry) >= 2
    /\ errq.entry[1] # errq.entry[Len(errq.entry)]
    /\ errq.returned = errq.entry[Len(errq.entry)]

(***************************************************************************)
(* C16: when only wrapper operations have run, the queue is empty after    *)
(* each of them, and an error one of them returns carries a code that its  *)
(* own native calls raised.                                                *)
(***************************************************************************)
C16_QueueEmptyAfterEveryOp ==
    (~errq.rawUsed /\ errq.op \in WrapperOps) =>
        /\ errq.queue = <<>>
        /\ errq.returned \notin {"Ok", "unit"} =>
              \E k \in 1..Len(errq.raised) : errq.raised[k] = errq.returned

CallsNamed(name) == {i \in 1..Len(boot.calls) : boot.calls[i][1] = name}

(***************************************************************************)
(* C18: in OpenXRComponent::new, session begin is called only directly     *)
(* after a poll that returned the session-state-changed event with state   *)
(* READY; a poll that returned anything else but an error is followed by   *)
(* another poll, not by begin; and when a poll returned an error, the      *)
(* construction has failed and begin was not called.                       *)
(***************************************************************************)
C18_BeginOnlyAfterReady ==
    /\ \A j \in CallsNamed("session_begin") :
          j > 1 /\ boot.calls[j - 1] = <<"poll_event", 0, "state_READY">>
    /\ \A i \in CallsNamed("poll_event") :
          /\ boot.calls[i][3] \notin {"state_READY", "error"} =>
                (i < Len(boot.calls) => boot.calls[i + 1][1] = "poll_event")
          /\ boot.calls[i][3] = "error" =>
                /\ boot.outcome = "Err"
                /\ CallsNamed("session_begin") = {}
    /\ boot.outcome = "Ok" => CallsNamed("session_begin") # {}

\* a construction succeeded after polling a non-READY state event and an
\* unrelated event before READY
C18_Witness ==
    /\ boot.outcome = "Ok"
    /\ \E i, j \in CallsNamed("poll_event") :
          /\ boot.calls[i][3] = "state_IDLE"
          /\ boot.calls[j][3] = "other_event"
    /\ CallsNamed("session_begin") # {}

(***************************************************************************)
(* C19: when OpenXRComponent::new has succeeded, it holds one swapchain    *)
(* and one image list per view-configuration entry, one create_swapchain   *)
(* and one enumerate_images call was made for each, and every image list   *)
(* has at least one entry.                                                 *)
(***************************************************************************)
C19_OneSwapchainPerView ==
    boot.outcome = "Ok" =>
        /\ boot.swapchains = boot.nViewConfigs
        /\ Len(boot.images) = boot.nViewConfigs
        /\ Cardinality(CallsNamed("create_swapchain")) = boot.nViewConfigs
        /\ Cardinality(CallsNamed("enumerate_images")) = boot.nViewConfigs
        /\ \A i \in 1..Len(boot.images) : boot.images[i] >= 1

(***************************************************************************)
(* C20: every error paint_vr_multiview returns for a failing compositor    *)
(* call carries the string decoded by the compositor, not the raw result   *)
(* code.                                                                   *)
(***************************************************************************)
C20_ErrorsCarryDecodedString ==
    xr.result.status = "err" => xr.result.xr_err = "decoded_string"

ReleasedAt(call, obj) ==
    {i \in 1..Len(prog.released) : prog.released[i] = <<call, obj>>}

(***************************************************************************)
(* C21: when Program::compile has succeeded, each stage object was         *)
(* detached once and then deleted once, before any later call; the program *)
(* is not deleted while its wrapper lives, and it is deleted exactly once   *)
(* when the wrapper has been destroyed.                                     *)
(***************************************************************************)
C21_StagesReleasedProgramKept ==
    prog.outcome = "Ok" =>
        /\ \A sh \in {"vertex_shader", "fragment_shader"} :
              /\ Cardinality(ReleasedAt("DetachShader", sh)) = 1
              /\ Cardinality(ReleasedAt("DeleteShader", sh)) = 1
              /\ \A i \in ReleasedAt("DetachShader", sh), j \in ReleasedAt("DeleteShader", sh) :
                    i < j
        /\ Cardinality(ReleasedAt("DeleteProgram", "program")) =
              IF prog.state = "dropped" THEN 1 ELSE 0
        /\ \A i \in ReleasedAt("DeleteProgram", "program") : i = Len(prog.released)

\* a compiled program was looked up and then destroyed
C21_Witness ==
    /\ prog.outcome = "Ok"
    /\ prog.state = "dropped"
    /\ prog.last.outcome = "Ok"

\* the position of the first STOPPING event of the queue the call found, or
\* of the poll that finds the queue empty
FirstStop ==
    LET stops == {i \in 1..Len(evq.entry) : evq.entry[i] = "state_STOPPING"}
    IN  IF stops = {} THEN Len(evq.entry) + 1
        ELSE CHOOSE i \in stops : \A j \in stops : i <= j

(***************************************************************************)
(* C22: a poll_till_no_events call has returned after at most one poll per *)
(* queued event and one more.  It returned the error when a poll failed    *)
(* before a STOPPING event was polled; otherwise PleaseStop at the poll    *)
(* that took the first STOPPING event, leaving the later events queued;    *)
(* otherwise Groovy, at the poll that found the queue empty.               *)
(***************************************************************************)
C22_StopGroovyOrError ==
    evq.returned # "none" =>
        /\ evq.polls <= Len(evq.entry) + 1
        /\ evq.returned =
              CASE evq.failAt \in 1..FirstStop -> "Err"
                [] FirstStop <= Len(evq.entry) -> "PleaseStop"
                [] OTHER -> "Groovy"
        /\ evq.returned = "PleaseStop" =>
              /\ evq.polls = FirstStop
              /\ evq.queue = SubSeq(evq.entry, FirstStop + 1, Len(evq.entry))
        /\ evq.returned = "Groovy" =>
              /\ evq.polls = Len(evq.entry) + 1
              /\ evq.queue = <<>>
        /\ evq.returned = "Err" => evq.polls = evq.failAt

\* STOPPING was polled after another session state and with an event behind it
C22_Witness ==
    /\ evq.returned = "PleaseStop"
    /\ evq.entry[1] = "state_READY"
    /\ evq.polls = 2
    /\ evq.queue # <<>>

(***************************************************************************)
(* C23: when rig_one_attribute has wired the same (location, width,        *)
(* stride, offset) on the same vertex array twice in a row with the same   *)
(* buffer bound at ARRAY_BUFFER, the attributes of the vertex array are    *)
(* as they were after the first wiring.                                    *)
(***************************************************************************)
C23_RewiringReplaces ==
    (wire.last.op = "rig_one_attribute" /\ wire.last.ok /\ wire.last.repeats) =>
        wire.table[wire.last.vao] = wire.last.before

\* the attribute was wired twice alike, after having been wired differently
C23_Witness ==
    /\ wire.last.op = "rig_one_attribute" /\ wire.last.ok /\ wire.last.repeats
    /\ wire.last.attrs = << <<0, 2, 5, 3>> >>
    /\ wire.table[1][0] =
          [size |-> 2, type |-> "FLOAT", stride |-> 20, offset |-> 12, buffer |-> 5,
           enabled |-> TRUE]
    /\ wire.table[1][1].enabled

(***************************************************************************)
(* C24: after a successful VertexBufferBundle::new, from_buffers or reuse, *)
(* every attribute the constructor wired in the new vertex array sources   *)
(* the new bundle's vertex buffer.                                         *)
(***************************************************************************)
C24_WiredToOwnVertexBuffer ==
    ( /\ wire.last.op \in {"VertexBufferBundle::new", "VertexBufferBundle::from_buffers",
                            "VertexBufferBundle::reuse"}
      /\ wire.last.ok )
    => \A i \in 1..Len(wire.last.attrs) :
          wire.table[wire.last.vao][wire.last.attrs[i][1]].buffer =
              wire.vertex_buffer[wire.last.vao]

(***************************************************************************)
(* C25: when a paint_vr_multiview call has returned, release_image was     *)
(* called for every eye whose acquire_image succeeded in that call.        *)
(***************************************************************************)
C25_AcquiredImagesReleased ==
    \A eye \in Eyes(xr.nEyes) :
        CountOf("acquire_image", eye) > 0 /\ Has(xr.log, "locate_views", TRUE)
        /\ (\E i \in 1..Len(xr.log) : xr.log[i] = Ev("acquire_image", eye, TRUE))
        => CountOf("release_image", eye) = 1

(***************************************************************************)
(* C26: while a BoundBuffersMut token lives, the vertex array, the array   *)
(* buffer and the index buffer it was made for are the ones bound.         *)
(***************************************************************************)
C26_MutTokenKeepsBindings ==
    ex1.token # 0 =>
        /\ ex1.bindings.VERTEX_ARRAY = ex1.token
        /\ ex1.bindings.ARRAY_BUFFER = 10 * ex1.token + 1
        /\ ex1.bindings.ELEMENT_ARRAY_BUFFER = 10 * ex1.token + 2

(***************************************************************************)
(* C27: when VertexBufferBundle::bind has returned an error, it produced   *)
(* no token and no binding point holds a handle that one of the call's     *)
(* successful binds put there.                                             *)
(***************************************************************************)
C27_FailedBindUndone ==
    (lastOp.op = "VertexBufferBundle::bind" /\ ~lastOp.ok) =>
        /\ lastOp.tok = NoToken
        /\ \A i \in 1..(Len(log) - 1) : bindings[log[i][2]] # log[i][3]

DeletesOf(call, h) ==
    Cardinality({k \in 1..Len(share.released.deletes) :
                    share.released.deletes[k] = <<call, h>>})

StillReferenced(h) ==
    \E i \in Holders : h \in {share.slots[i].vertex_buffer, share.slots[i].index_buffer}

(***************************************************************************)
(* C28: no bundle or buffer set that is held references a buffer that was  *)
(* deleted; and when one has been dropped, the delete of each of its       *)
(* buffers was issued once if no holder of that buffer is left and not at  *)
(* all otherwise, and the delete of a bundle's vertex array was issued     *)
(* once.                                                                   *)
(***************************************************************************)
C28_SharedBuffersDeletedWithLastHolder ==
    /\ \A i \in Holders :
          {share.slots[i].vertex_buffer, share.slots[i].index_buffer} \subseteq share.buffers
    /\ share.released.entry.kind # "none" =>
          LET e == share.released.entry
          IN  /\ \A h \in {e.vertex_buffer, e.index_buffer} :
                    DeletesOf("DeleteBuffers", h) = IF StillReferenced(h) THEN 0 ELSE 1
              /\ e.kind = "bundle" => DeletesOf("DeleteVertexArrays", e.vertex_array) = 1
              /\ Len(share.released.deletes) <= 3
    /\ \A h \in share.buffers : StillReferenced(h)

\* the source bundle was dropped while a bundle made from it is still held,
\* and nothing but its vertex array was deleted
C28_Witness ==
    /\ share.released.entry.kind = "bundle"
    /\ share.released.deletes = << <<"DeleteVertexArrays", share.released.entry.vertex_array>> >>
    /\ \E i \in BundlesHeld :
          share.slots[i].vertex_buffer = share.released.entry.vertex_buffer

(***************************************************************************)
(* C29: the active texture unit GPUState records is the native context's   *)
(* active texture unit, in every state.                                    *)
(***************************************************************************)
C29_RecordedUnitIsNativeUnit == atu.recorded = atu.native

(***************************************************************************)
(* C30: when write_pixels has issued the native upload, width and height   *)
(* are not negative and width * height * channels * size_of(T), the bytes  *)
(* the native call reads, is the byte length of the pixel slice.           *)
(***************************************************************************)
C30_UploadReadsWholeSlice ==
    (pix.state = "done" /\ pix.uploaded = 1) =>
        /\ pix.width >= 0
        /\ pix.height >= 0
        /\ TrueSizeEquals(pix.width, pix.height, BytesPerPixel(pix.format, pix.elem).bpp,
                          pix.len * pix.elem)

====
